---- MODULE Spec2Model ----
(***************************************************************************)
(* The download scheduler (src/download/scheduler.go), the cache manager's *)
(* GetOrCreateFile and the proxy request path of mitmcdn, as a state       *)
(* machine.  Goroutines are processes: one per client request, one         *)
(* download worker per task object.  The metadata store (files, logs), the *)
(* cache directory and the upstream server are shared state.               *)
(*                                                                         *)
(* File contents are sequences of segments <<off, len>> of the upstream    *)
(* body, so a file or a response body is right exactly when it is the one  *)
(* segment <<0, BodyBytes>>.                                               *)
(***************************************************************************)
EXTENDS Integers, Sequences, FiniteSets, TLC

\* ---------------------------------------------------------------- bounds
NumHashes == 1
NumClients == 2
BodyBytes == 1536
MaxRestarts == 1
RequestsAfterRestart == 1
NumFingerprints == 2
NumCallers == 2
MaxFileBytes == 2
MaxAge == 2
TTL == 1
MaxTicks == 1
MaxMaintenance == 1
MaxCalls == 3
TrickleBytes == 128
MaxBuf == 4
MaxWriteBytes == 2
MaxWrites == 2

\* ------------------------------------------------------ program constants
DataChanCap == 10
StreamPriority == 100
LowPriority == 10
ProgressModulus == 1024
StatusOK == 200
StatusBadGateway == 502
StatusInternalServerError == 500
StatusRangeNotSatisfiable == 416

Hashes == 1..NumHashes
Clients == 1..NumClients
\* One task object per hash is what StartDownload allocates; one spare object
\* makes a second allocation for a hash representable.
MaxTasks == NumHashes + 1
TaskIds == 1..MaxTasks
NoTask == 0

\* Sizes a single resp.Body.Read may return (any n <= len(buffer)), cut to what
\* is left of the body: with 1024 the reads of the body are one that ends on a
\* multiple of 1024 and one that does not.
ReadSizes == {1024}
\* Statuses outside {200, 206} the upstream may answer with.
UpstreamErrorCodes == {404}

Min(a, b) == IF a < b THEN a ELSE b

\* ------------------------------------------------------------- contents
\* Size in bytes of a sequence of segments (os.FileInfo.Size, len(data)).
RECURSIVE SegBytes(_)
SegBytes(s) == IF s = <<>> THEN 0 ELSE s[1][2] + SegBytes(Tail(s))

\* Appending bytes [off, off+n) of the upstream body after content s
\* (file.Write on an O_APPEND file, w.Write on a response body).
AppendBytes(s, off, n) ==
    IF n = 0 THEN s
    ELSE IF s # <<>> /\ s[Len(s)][1] + s[Len(s)][2] = off
         THEN [s EXCEPT ![Len(s)] = <<s[Len(s)][1], s[Len(s)][2] + n>>]
         ELSE Append(s, <<off, n>>)

\* io.Copy / http.ServeFile of content d after what was already written.
RECURSIVE AppendAll(_, _)
AppendAll(s, d) ==
    IF d = <<>> THEN s ELSE AppendAll(AppendBytes(s, d[1][1], d[1][2]), Tail(d))

FullBody == << <<0, BodyBytes>> >>

\* ------------------------------------------------------- metadata store
NoFile == [exists |-> FALSE, DownloadStatus |-> "", DownloadedBytes |-> 0,
           FileSize |-> 0, ContentType |-> "", Completed |-> FALSE]

\* database.File as GetOrCreateFile inserts it.
NewFile == [exists |-> TRUE, DownloadStatus |-> "pending", DownloadedBytes |-> 0,
            FileSize |-> 0, ContentType |-> "", Completed |-> FALSE]

\* db.Model(&File{}).Where("file_hash = ?", h).Updates(...): no row, no effect.
DBUpdate(fs, h, upd) ==
    IF fs[h].exists
    THEN [fs EXCEPT ![h] = [f \in DOMAIN fs[h] |->
                               IF f \in DOMAIN upd THEN upd[f] ELSE fs[h][f]]]
    ELSE fs

\* Log.Message of handleDownloadError: fmt.Sprintf("Download failed: %v", err).
StatusErr(code) == <<"unexpected status code: ", code>>
NetErr == <<"read: connection reset">>

\* A log message without the cause.
LogMessage_NoCause(err) == <<"Download failed: ">>
LogMessage(err) == <<"Download failed: ">> \o err

\* ------------------------------------------------------------ the state
VARIABLES
    tasks,      \* Scheduler.tasks: fileHash -> task object (NoTask: no entry)
    nTasks,     \* task objects allocated so far in this process
    task,       \* the Task objects
    worker,     \* the downloadTask goroutine of each task object
    files,      \* table files of the metadata store
    logs,       \* table logs, per fileHash, oldest first
    disk,       \* cache directory: content of <cacheDir>/<fileHash>
    client,     \* the request goroutines
    upstream,   \* per fileHash, the GETs the upstream received in this process
    restarts    \* process restarts so far

\* The cache manager over a store whose table files is a set of rows, and the
\* arguments and results of the pure functions, each with a specification of
\* its own below.
VARIABLES
    rows,       \* table files: the set of its rows
    nextID,     \* the next value of the autoincrement primary key
    cacheFiles, \* cache directory: size of <cacheDir>/<fileHash>, NoSuchFile without
    clock,      \* time.Now()
    call,       \* the callers of GetOrCreateFile and of db.Create
    maint,      \* the maintenance calls that have returned: count, last call
    arg,        \* arguments of the pure function under call
    ret         \* results of its calls, oldest first

mgrVars == <<rows, nextID, cacheFiles, clock, call, maint>>
fnVars == <<arg, ret>>

\* The unified server: one accepted connection, one response writer, and the
\* certificates of the process, each with a specification of its own below.
VARIABLES
    conn,       \* an accepted connection, its peekConn and its handling goroutine
    w,          \* a responseWriter and the bytes it has written
    pki         \* certCache, the certificates minted, the callers, time.Now()

srvVars == <<conn, w, pki>>

\* The locks of the scheduler and the goroutines that take them.
VARIABLES
    mu,         \* Scheduler.mu (an RWMutex) and Task.mu (a Mutex): their holders
    run         \* goroutine -> the calls it has to make, its place, what it read

lockVars == <<mu, run>>

schedVars == <<tasks, nTasks, task, worker, files, logs, disk, client, upstream, restarts>>
vars == <<schedVars, mgrVars, fnVars, srvVars, lockVars>>

NoTaskObj == [FileHash |-> 0, Priority |-> 0, Status |-> "none",
              dataChan |-> <<>>, closed |-> 0, cancelled |-> FALSE,
              FileSize |-> 0, ContentType |-> ""]

NoWorker == [pc |-> "none", startOffset |-> 0, downloaded |-> 0,
             pos |-> 0, plan |-> "", n |-> 0, err |-> <<>>, spawned |-> 0]

IdleClient == [pc |-> "idle", kind |-> "", hash |-> 0, file |-> NoFile,
               task |-> NoTask, toPause |-> {}, currentSize |-> 0,
               out |-> <<>>, code |-> 0, clen |-> 0, result |-> ""]

SchedulerInit ==
    /\ tasks = [h \in Hashes |-> NoTask]
    /\ nTasks = 0
    /\ task = [t \in TaskIds |-> NoTaskObj]
    /\ worker = [t \in TaskIds |-> NoWorker]
    /\ files = [h \in Hashes |-> NoFile]
    /\ logs = [h \in Hashes |-> <<>>]
    /\ disk = [h \in Hashes |-> <<>>]
    /\ client = [c \in Clients |-> IdleClient]
    /\ upstream = [h \in Hashes |-> <<>>]
    /\ restarts = 0

\* Finishing a request: the goroutine returns.  Of its locals the state keeps
\* the status it read from the store, the task it used and the size it first
\* saw on disk.
Done(c, res) ==
    [client[c] EXCEPT !.pc = "done", !.result = res, !.toPause = {},
                      !.file = [NoFile EXCEPT !.DownloadStatus = client[c].file.DownloadStatus]]

\* ------------------------------------------------------ Go channel rules
\* An unbuffered channel passes a value only between a goroutine parked in a
\* blocking send and one parked in a blocking receive, or between one parked
\* goroutine and a non-blocking (select ... default) operation of the other.
\* Two non-blocking operations never meet.  The code's only blocking receive
\* is <-task.resumeChan (downloadTask) and its only blocking send is
\* task.resumeChan <- struct{}{} (StartDownload); both operations on pauseChan
\* are select cases with a default.
RecvParked(t, ch) == ch = "resumeChan" /\ worker[t].pc = "wait_resume"
SendParked(t, ch) ==
    ch = "resumeChan" /\ \E c \in Clients : client[c].pc = "sd_resume" /\ client[c].task = t

\* ------------------------------------------------- cache.GetOrCreateFile
PriorityOf(c) ==
    IF client[c].kind \in {"proxy", "direct100"} THEN StreamPriority ELSE LowPriority

\* What the caller of GetOrCreateFile does with the record it got:
\* HTTPReverseProxy.ServeHTTP serves a complete file from the cache and hands
\* everything else to StreamFile, whose first two tests are on the same field;
\* a direct caller (tests, plugins) calls StartDownload.
AfterLookup(kind, f) ==
    IF kind # "proxy" THEN "sd_lock"
    ELSE IF f.DownloadStatus = "complete" THEN "serve_file"
    ELSE IF f.DownloadStatus = "failed" THEN "write_error"
    ELSE "sf_lookup"

\* The fields of its record that the caller of GetOrCreateFile reads later
\* (DownloadStatus at once, FileSize for the Content-Length header).
Held(f) == [NoFile EXCEPT !.DownloadStatus = f.DownloadStatus, !.FileSize = f.FileSize]

\* A request of one of the given kinds arrives for a URL whose fingerprint is
\* h: "proxy" is a client's request to the proxy, "direct" a call of
\* StartDownload with LowPriority, "direct100" one with StreamPriority.
BeginAs(c, kinds) ==
    /\ client[c].pc = "idle"
    /\ \E h \in Hashes, k \in kinds :
          client' = [client EXCEPT ![c] = [IdleClient EXCEPT
                        !.pc = "goc_first", !.kind = k, !.hash = h]]
    /\ UNCHANGED <<tasks, nTasks, task, worker, files, logs, disk, upstream, restarts, mgrVars, fnVars, srvVars, lockVars>>

Begin(c) == BeginAs(c, {"proxy", "direct"})

\* m.db.Where("file_hash = ?", fileHash).First(&file)
GetOrCreateFile_First(c) ==
    /\ client[c].pc = "goc_first"
    /\ LET h == client[c].hash IN
          client' = [client EXCEPT ![c] =
              IF files[h].exists
              THEN [@ EXCEPT !.pc = "goc_save", !.file = files[h]]
              ELSE [@ EXCEPT !.pc = "goc_create"]]
    /\ UNCHANGED <<tasks, nTasks, task, worker, files, logs, disk, upstream, restarts, mgrVars, fnVars, srvVars, lockVars>>

\* file.LastAccessedAt = time.Now(); m.db.Save(&file): every column of the row
\* is written from the copy read by First.
SaveRow(f) == f

GetOrCreateFile_Save(c) ==
    /\ client[c].pc = "goc_save"
    /\ LET h == client[c].hash IN
          /\ files' = [files EXCEPT ![h] = SaveRow(client[c].file)]
          /\ client' = [client EXCEPT ![c] = [@ EXCEPT
                !.pc = AfterLookup(client[c].kind, client[c].file),
                !.file = Held(client[c].file)]]
    /\ UNCHANGED <<tasks, nTasks, task, worker, logs, disk, upstream, restarts, mgrVars, fnVars, srvVars, lockVars>>

\* m.db.Create(&file): the unique index on file_hash rejects a second row, and
\* the error is returned to the caller (500 to the client).
GetOrCreateFile_Create(c) ==
    /\ client[c].pc = "goc_create"
    /\ LET h == client[c].hash IN
          IF files[h].exists
          THEN /\ client' = [client EXCEPT ![c] =
                      [Done(c, "create_error") EXCEPT !.code = StatusInternalServerError]]
               /\ UNCHANGED files
          ELSE /\ files' = [files EXCEPT ![h] = NewFile]
               /\ client' = [client EXCEPT ![c] =
                      [@ EXCEPT !.file = Held(NewFile),
                                !.pc = AfterLookup(client[c].kind, NewFile)]]
    /\ UNCHANGED <<tasks, nTasks, task, worker, logs, disk, upstream, restarts, mgrVars, fnVars, srvVars, lockVars>>

\* http.ServeFile(w, r, file.SavedPath) for a record read as complete.
ServeFile(c) ==
    /\ client[c].pc = "serve_file"
    /\ client' = [client EXCEPT ![c] =
          [Done(c, "served") EXCEPT !.code = StatusOK, !.out = disk[client[c].hash]]]
    /\ UNCHANGED <<tasks, nTasks, task, worker, files, logs, disk, upstream, restarts, mgrVars, fnVars, srvVars, lockVars>>

\* ------------------------------------------- Scheduler.writeDownloadError
\* The status code writeDownloadError answers with: the latest error log
\* entry of the fileHash is scanned with
\* "Download failed: unexpected status code: %d"; 502 when that fails.
ParseStatus(msg) ==
    IF Len(msg) = 3 /\ msg[1] = "Download failed: " /\ msg[2] = "unexpected status code: "
    THEN msg[3] ELSE StatusBadGateway

ErrorStatus(h) ==
    IF logs[h] = <<>> THEN StatusBadGateway ELSE ParseStatus(logs[h][Len(logs[h])])

writeDownloadError(c) ==
    /\ client[c].pc = "write_error"
    /\ client' = [client EXCEPT ![c] =
          [Done(c, "download_failed") EXCEPT !.code = ErrorStatus(client[c].hash)]]
    /\ UNCHANGED <<tasks, nTasks, task, worker, files, logs, disk, upstream, restarts, mgrVars, fnVars, srvVars, lockVars>>

\* --------------------------------------------- Scheduler.StartDownload
\* StartDownload without the lookup: every call builds a task.
TaskExists_Never(h) == FALSE

\* StartDownload that takes a finished task for no task.
TaskExists_Unfinished(h) ==
    tasks[h] # NoTask /\ task[tasks[h]].Status \notin {"complete", "failed"}

\* StartDownload that takes only a downloading task for an existing one.
TaskExists_OnlyDownloading(h) ==
    tasks[h] # NoTask /\ task[tasks[h]].Status = "downloading"

\* task, exists := s.tasks[file.FileHash], read under s.mu.
TaskExists(h) == tasks[h] # NoTask

\* The statuses for which StartDownload returns at once.
AlreadyActiveOrFinished(status) == status \in {"downloading", "pending", "complete"}

\* Where the caller of StartDownload continues when it returns nil.
AfterStart(c) == IF client[c].kind = "proxy" THEN "sf_gettask" ELSE "done"

\* s.mu.Lock(); look the task up; without one, build the Task, enter it in
\* s.tasks, unlock and start the goroutine that runs downloadTask.
StartDownload_Lock(c) ==
    /\ client[c].pc = "sd_lock"
    /\ LET h == client[c].hash IN
          IF TaskExists(h)
          THEN /\ client' = [client EXCEPT ![c] = [@ EXCEPT !.pc = "sd_status", !.task = tasks[h]]]
               /\ UNCHANGED <<tasks, nTasks, task, worker>>
          ELSE /\ nTasks < MaxTasks
               /\ LET t == nTasks + 1 IN
                     /\ nTasks' = t
                     /\ tasks' = [tasks EXCEPT ![h] = t]
                     /\ task' = [task EXCEPT ![t] = [NoTaskObj EXCEPT
                                    !.FileHash = h, !.Priority = PriorityOf(c),
                                    !.Status = "pending"]]
                     /\ worker' = [worker EXCEPT ![t] = [NoWorker EXCEPT
                                    !.pc = "start", !.spawned = 1]]
                     /\ client' = [client EXCEPT ![c] =
                                    IF AfterStart(c) = "done" THEN Done(c, "started")
                                    ELSE [@ EXCEPT !.pc = "sf_gettask"]]
    /\ UNCHANGED <<files, logs, disk, upstream, restarts, mgrVars, fnVars, srvVars, lockVars>>

\* The existing task: status := task.Status; task.Priority = priority (under
\* task.mu); a paused task is sent the resume signal, a blocking send on the
\* unbuffered resumeChan, which completes at once only when the worker is
\* parked in <-task.resumeChan.
StartDownload_Existing(c) ==
    /\ client[c].pc = "sd_status"
    /\ LET t == client[c].task
           status == task[t].Status IN
          /\ IF status = "paused" /\ ~AlreadyActiveOrFinished(status) /\ RecvParked(t, "resumeChan")
             THEN /\ worker' = [worker EXCEPT ![t].pc = "resumed"]
                  /\ client' = [client EXCEPT ![c] =
                         IF AfterStart(c) = "done" THEN Done(c, "resumed")
                         ELSE [@ EXCEPT !.pc = "sf_gettask"]]
             ELSE /\ UNCHANGED worker
                  /\ client' = [client EXCEPT ![c] =
                         IF status = "paused" /\ ~AlreadyActiveOrFinished(status)
                         THEN [@ EXCEPT !.pc = "sd_resume"]
                         ELSE IF AfterStart(c) = "done" THEN Done(c, "existing")
                         ELSE [@ EXCEPT !.pc = "sf_gettask"]]
          /\ task' = [task EXCEPT ![t].Priority = PriorityOf(c)]
    /\ UNCHANGED <<tasks, nTasks, files, logs, disk, upstream, restarts, mgrVars, fnVars, srvVars, lockVars>>

\* ------------------------------------- Scheduler.PauseLowPriorityTasks
\* First loop, under s.mu.RLock: the tasks that are downloading below
\* minPriority.
ShouldPause(t, minPriority) ==
    task[t].Status = "downloading" /\ task[t].Priority < minPriority

PauseLowPriorityTasks_Collect(c) ==
    /\ client[c].pc = "pause_collect"
    /\ client' = [client EXCEPT ![c] = [@ EXCEPT
          !.pc = "pause_apply",
          !.toPause = {t \in TaskIds : \E h \in Hashes : tasks[h] = t
                                          /\ ShouldPause(t, StreamPriority)}]]
    /\ UNCHANGED <<tasks, nTasks, task, worker, files, logs, disk, upstream, restarts, mgrVars, fnVars, srvVars, lockVars>>

\* Second loop, outside s.mu: a collected task that is still downloading gets
\* Status "paused" and a non-blocking send on pauseChan, which is received only
\* by a worker parked in a blocking receive on pauseChan.
PausedTask(t) ==
    IF task[t].Status = "downloading" THEN [task[t] EXCEPT !.Status = "paused"] ELSE task[t]

PauseLowPriorityTasks_Apply(c) ==
    /\ client[c].pc = "pause_apply"
    /\ task' = [t \in TaskIds |-> IF t \in client[c].toPause THEN PausedTask(t) ELSE task[t]]
    /\ worker' = [t \in TaskIds |->
          IF t \in client[c].toPause /\ task[t].Status = "downloading"
             /\ RecvParked(t, "pauseChan")
          THEN [worker[t] EXCEPT !.pc = "pause_received"] ELSE worker[t]]
    /\ client' = [client EXCEPT ![c] = [@ EXCEPT !.pc = "sd_lock", !.toPause = {}]]
    /\ UNCHANGED <<tasks, nTasks, files, logs, disk, upstream, restarts, mgrVars, fnVars, srvVars, lockVars>>

\* ------------------------------------------------ Scheduler.StreamFile
\* s.mu.RLock(); task, exists := s.tasks[file.FileHash]
StreamFile_Lookup(c) ==
    /\ client[c].pc = "sf_lookup"
    /\ LET h == client[c].hash IN
          client' = [client EXCEPT ![c] =
              IF tasks[h] # NoTask
              THEN [@ EXCEPT !.pc = "sf_status", !.task = tasks[h]]
              ELSE [@ EXCEPT !.pc = "pause_collect"]]
    /\ UNCHANGED <<tasks, nTasks, task, worker, files, logs, disk, upstream, restarts, mgrVars, fnVars, srvVars, lockVars>>

\* needsStart = status != "downloading" && status != "complete"
NeedsStart(status) == status # "downloading" /\ status # "complete"

StreamFile_Status(c) ==
    /\ client[c].pc = "sf_status"
    /\ client' = [client EXCEPT ![c].pc =
          IF NeedsStart(task[client[c].task].Status) THEN "pause_collect" ELSE "sf_stat"]
    /\ UNCHANGED <<tasks, nTasks, task, worker, files, logs, disk, upstream, restarts, mgrVars, fnVars, srvVars, lockVars>>

\* After StartDownload: task = s.tasks[file.FileHash] under s.mu.RLock.
StreamFile_GetTask(c) ==
    /\ client[c].pc = "sf_gettask"
    /\ client' = [client EXCEPT ![c] =
          IF tasks[client[c].hash] = NoTask
          THEN Done(c, "task_not_found")
          ELSE [@ EXCEPT !.pc = "sf_stat", !.task = tasks[client[c].hash]]]
    /\ UNCHANGED <<tasks, nTasks, task, worker, files, logs, disk, upstream, restarts, mgrVars, fnVars, srvVars, lockVars>>

\* currentSize: the size of the cache file when StreamFile opens it first.
\* (The later currentSize += len(data) of the streaming loop is never read.)
StreamFile_Stat(c) ==
    /\ client[c].pc = "sf_stat"
    /\ client' = [client EXCEPT ![c] =
          [@ EXCEPT !.pc = "sf_wait", !.currentSize = SegBytes(disk[client[c].hash])]]
    /\ UNCHANGED <<tasks, nTasks, task, worker, files, logs, disk, upstream, restarts, mgrVars, fnVars, srvVars, lockVars>>

\* The wait for the task to be ready: a poll of task.Status every 50 ms ...
StreamFile_WaitPoll(c) ==
    /\ client[c].pc = "sf_wait"
    /\ LET status == task[client[c].task].Status IN
          /\ status \in {"failed", "downloading", "complete"}
          /\ client' = [client EXCEPT ![c].pc =
                IF status = "failed" /\ client[c].currentSize = 0
                THEN "write_error" ELSE "sf_meta"]
    /\ UNCHANGED <<tasks, nTasks, task, worker, files, logs, disk, upstream, restarts, mgrVars, fnVars, srvVars, lockVars>>

\* ... and the 5 s timer: with bytes on disk the serve goes on, without any
\* StreamFile returns "timeout waiting for download to start".
StreamFile_WaitTimeout(c) ==
    /\ client[c].pc = "sf_wait"
    /\ client' = [client EXCEPT ![c] =
          IF client[c].currentSize > 0
          THEN [@ EXCEPT !.pc = "sf_meta"]
          ELSE Done(c, "timeout")]
    /\ UNCHANGED <<tasks, nTasks, task, worker, files, logs, disk, upstream, restarts, mgrVars, fnVars, srvVars, lockVars>>

\* The wait (at most 20 polls) for task.file.ContentType, the re-check of the
\* status after it, and the response header: Content-Type, Content-Length when
\* file.FileSize > 0, WriteHeader(200).  known = FALSE is the exit of the loop
\* after its last poll without a content type.
StreamFile_Header(c) ==
    /\ client[c].pc = "sf_meta"
    /\ LET tk == task[client[c].task] IN
       \E known \in {tk.ContentType # ""} \cup {FALSE} :
          client' = [client EXCEPT ![c] =
              IF tk.Status = "failed" /\ client[c].currentSize = 0
              THEN [@ EXCEPT !.pc = "write_error"]
              ELSE [@ EXCEPT !.pc = "sf_copy", !.code = StatusOK,
                             !.clen = IF known THEN tk.FileSize ELSE client[c].file.FileSize]]
    /\ UNCHANGED <<tasks, nTasks, task, worker, files, logs, disk, upstream, restarts, mgrVars, fnVars, srvVars, lockVars>>

\* if currentSize > 0 { io.Copy(w, f) }: the file as it is when it is copied.
StreamFile_Copy(c) ==
    /\ client[c].pc = "sf_copy"
    /\ client' = [client EXCEPT ![c] = [@ EXCEPT
          !.pc = "sf_stream",
          !.out = IF client[c].currentSize > 0 THEN disk[client[c].hash] ELSE @]]
    /\ UNCHANGED <<tasks, nTasks, task, worker, files, logs, disk, upstream, restarts, mgrVars, fnVars, srvVars, lockVars>>

\* The streaming loop, case data, ok := <-task.dataChan with a chunk: it is
\* taken off the channel and written to this client.
StreamFile_Chunk(c) ==
    /\ client[c].pc = "sf_stream"
    /\ LET t == client[c].task IN
          /\ task[t].dataChan # <<>>
          /\ LET data == Head(task[t].dataChan) IN
                client' = [client EXCEPT ![c].out = AppendBytes(@, data[1], data[2])]
          /\ task' = [task EXCEPT ![t].dataChan = Tail(@)]
    /\ UNCHANGED <<tasks, nTasks, worker, files, logs, disk, upstream, restarts, mgrVars, fnVars, srvVars, lockVars>>

\* The streaming loop on a closed and drained channel: return nil.
StreamFile_Closed(c) ==
    /\ client[c].pc = "sf_stream"
    /\ LET t == client[c].task IN
          /\ task[t].dataChan = <<>>
          /\ task[t].closed > 0
    /\ client' = [client EXCEPT ![c] = Done(c, "stream_end")]
    /\ UNCHANGED <<tasks, nTasks, task, worker, files, logs, disk, upstream, restarts, mgrVars, fnVars, srvVars, lockVars>>

\* A disconnect that cancels the download with the request.
OnDisconnect_Cancel(tk) == [tk EXCEPT !.cancelled = TRUE]

\* What a client disconnect does to the task: nothing (StreamFile returns).
OnDisconnect(tk) == tk

\* The client goes away: case <-r.Context().Done() returns nil, a failed
\* w.Write returns the error.
StreamFile_Disconnect(c) ==
    /\ client[c].pc = "sf_stream"
    /\ client' = [client EXCEPT ![c] = Done(c, "disconnected")]
    /\ task' = [task EXCEPT ![client[c].task] = OnDisconnect(@)]
    /\ UNCHANGED <<tasks, nTasks, worker, files, logs, disk, upstream, restarts, mgrVars, fnVars, srvVars, lockVars>>

\* ----------------------------------------------- Scheduler.downloadTask
HashOf(t) == task[t].FileHash

\* downloadTask returns: the goroutine and its locals are gone.
Returned == [NoWorker EXCEPT !.pc = "done", !.spawned = 1]

\* task.Status = "downloading" under task.mu.
downloadTask_Start(t) ==
    /\ worker[t].pc = "start"
    /\ task' = [task EXCEPT ![t].Status = "downloading"]
    /\ worker' = [worker EXCEPT ![t].pc = "db_downloading"]
    /\ UNCHANGED <<tasks, nTasks, files, logs, disk, client, upstream, restarts, mgrVars, fnVars, srvVars, lockVars>>

\* Updates(download_status: "downloading")
downloadTask_MarkDownloading(t) ==
    /\ worker[t].pc = "db_downloading"
    /\ files' = DBUpdate(files, HashOf(t), [DownloadStatus |-> "downloading"])
    /\ worker' = [worker EXCEPT ![t].pc = "request"]
    /\ UNCHANGED <<tasks, nTasks, task, logs, disk, client, upstream, restarts, mgrVars, fnVars, srvVars, lockVars>>

\* A start offset taken from the record instead of the file.
StartOffset_Persisted(h) == files[h].DownloadedBytes

\* startOffset: os.Stat(task.file.SavedPath).Size(), 0 without a file.
StartOffset(h) == SegBytes(disk[h])

\* The upstream's answers to GET with Range: bytes=k- (k = 0: no Range header):
\* a status outside {200, 206}; 206 with the body from k on; 200 with the whole
\* body (also the answer of a server that ignores Range); 416 for k at or past
\* the end.  <<status, first body offset>>.
Answers(k) ==
    {<<code, 0>> : code \in UpstreamErrorCodes}
    \cup {<<StatusOK, 0>>}
    \cup (IF k = 0 THEN {}
          ELSE IF k < BodyBytes THEN {<<206, k>>}
          ELSE {<<StatusRangeNotSatisfiable, 0>>})

\* The request and its response header: s.httpClient.Do(req) fails, or the
\* status is rejected, or the body is about to be read.  plan says whether the
\* upstream will deliver the body to its end ("whole") or break the connection
\* before that ("cut"), or deliver it to its end in small reads ("trickle"); n
\* is resp.ContentLength (0: not announced).
downloadTask_RequestAs(t, plans) ==
    /\ worker[t].pc = "request"
    /\ LET h == HashOf(t)
           k == StartOffset(h) IN
          /\ upstream' = [upstream EXCEPT ![h] =
                Append(@, [Range |-> k, persisted |-> files[h].DownloadedBytes])]
          /\ \/ worker' = [worker EXCEPT ![t] = [@ EXCEPT
                    !.pc = "err_status", !.startOffset = k, !.err = NetErr]]
             \/ \E a \in Answers(k) :
                  IF a[1] # StatusOK /\ a[1] # 206
                  THEN worker' = [worker EXCEPT ![t] = [@ EXCEPT
                          !.pc = "err_status", !.startOffset = k, !.err = StatusErr(a[1])]]
                  ELSE \E plan \in plans, announced \in BOOLEAN :
                          worker' = [worker EXCEPT ![t] = [@ EXCEPT
                             !.pc = "open", !.startOffset = k, !.pos = a[2], !.plan = plan,
                             !.n = IF announced THEN BodyBytes - a[2] ELSE 0]]
    /\ UNCHANGED <<tasks, nTasks, task, files, logs, disk, client, restarts, mgrVars, fnVars, srvVars, lockVars>>

\* The upstream delivers the body in reads of ReadSizes.
downloadTask_Request(t) == downloadTask_RequestAs(t, {"whole", "cut"})

\* The upstream delivers the whole body in reads of TrickleBytes.
downloadTask_Trickle(t) == downloadTask_RequestAs(t, {"trickle"})

\* totalSize := startOffset (+ resp.ContentLength when > 0)
TotalSize(startOffset, contentLength) ==
    IF contentLength > 0 THEN startOffset + contentLength ELSE startOffset

\* os.OpenFile(O_CREATE|O_WRONLY|O_APPEND); file size and content type go to
\* the task's record (under task.mu) and to the store; downloaded := startOffset.
downloadTask_Open(t) ==
    /\ worker[t].pc = "open"
    /\ LET h == HashOf(t)
           total == TotalSize(worker[t].startOffset, worker[t].n) IN
          /\ task' = [task EXCEPT ![t] = [@ EXCEPT
                !.FileSize = IF total > worker[t].startOffset THEN total ELSE @,
                !.ContentType = "application/octet-stream"]]
          /\ files' = DBUpdate(files, h,
                IF total > worker[t].startOffset
                THEN [FileSize |-> total, ContentType |-> "application/octet-stream"]
                ELSE [ContentType |-> "application/octet-stream"])
          /\ worker' = [worker EXCEPT ![t] = [@ EXCEPT
                !.pc = "loop", !.downloaded = worker[t].startOffset, !.n = 0]]
    /\ UNCHANGED <<tasks, nTasks, logs, disk, client, upstream, restarts, mgrVars, fnVars, srvVars, lockVars>>

\* What one resp.Body.Read may give at body offset pos: n > 0 bytes, io.EOF at
\* the end of a whole body, or an error of a cut one.  <<n, err>>.
Reads(pos, plan) ==
    {<<Min(sz, BodyBytes - pos), "">> :
        sz \in IF pos >= BodyBytes THEN {}
               ELSE IF plan = "trickle" THEN {TrickleBytes} ELSE ReadSizes}
    \cup (IF plan = "cut" THEN {<<0, "error">>} ELSE {})
    \cup (IF plan # "cut" /\ pos >= BodyBytes THEN {<<0, "EOF">>} ELSE {})

\* The sender that resumeChan's receiver releases.
ReleaseSender(t) ==
    [c \in Clients |->
        IF client[c].pc = "sd_resume" /\ client[c].task = t
           /\ c = CHOOSE d \in Clients : client[d].pc = "sd_resume" /\ client[d].task = t
        THEN IF AfterStart(c) = "done" THEN Done(c, "resumed")
             ELSE [client[c] EXCEPT !.pc = "sf_gettask"]
        ELSE client[c]]

\* One turn of the for { select { ... } } loop:
\*   case <-task.ctx.Done(): return
\*   case <-task.pauseChan: Status = "paused"; <-task.resumeChan; Status = "downloading"
\*   default: n, err := resp.Body.Read(buffer)
downloadTask_Select(t) ==
    /\ worker[t].pc \in {"loop", "pause_received", "wait_resume", "resumed"}
    /\ IF worker[t].pc = "resumed"
       THEN /\ task' = [task EXCEPT ![t].Status = "downloading"]
            /\ worker' = [worker EXCEPT ![t].pc = "loop"]
            /\ UNCHANGED client
       ELSE IF worker[t].pc = "wait_resume"
       THEN /\ SendParked(t, "resumeChan")
            /\ client' = ReleaseSender(t)
            /\ worker' = [worker EXCEPT ![t].pc = "resumed"]
            /\ UNCHANGED task
       ELSE IF task[t].cancelled
       THEN /\ worker' = [worker EXCEPT ![t] = Returned]
            /\ UNCHANGED <<task, client>>
       ELSE IF worker[t].pc = "pause_received" \/ SendParked(t, "pauseChan")
       THEN /\ task' = [task EXCEPT ![t].Status = "paused"]
            /\ worker' = [worker EXCEPT ![t].pc = "wait_resume"]
            /\ UNCHANGED client
       ELSE /\ \E r \in Reads(worker[t].pos, worker[t].plan) :
                 worker' = [worker EXCEPT ![t] =
                    IF r[1] > 0 THEN [@ EXCEPT !.pc = "write", !.n = r[1]]
                    ELSE IF r[2] = "EOF" THEN [@ EXCEPT !.pc = "eof_db"]
                    ELSE [@ EXCEPT !.pc = "err_status", !.err = NetErr]]
            /\ UNCHANGED <<task, client>>
    /\ UNCHANGED <<tasks, nTasks, files, logs, disk, upstream, restarts, mgrVars, fnVars, srvVars, lockVars>>

\* file.Write(data): the chunk read at body offset pos goes to the end of the
\* cache file.
downloadTask_Write(t) ==
    /\ worker[t].pc = "write"
    /\ disk' = [disk EXCEPT ![HashOf(t)] = AppendBytes(@, worker[t].pos, worker[t].n)]
    /\ worker' = [worker EXCEPT ![t].pc = "publish"]
    /\ UNCHANGED <<tasks, nTasks, task, files, logs, client, upstream, restarts, mgrVars, fnVars, srvVars, lockVars>>

\* A publish that puts the chunk in front of those waiting.
Publish_Front(ch, data) == IF Len(ch) < DataChanCap THEN <<data>> \o ch ELSE ch

\* select { case task.dataChan <- data: default: }: the chunk is dropped when
\* the channel holds DataChanCap chunks.
Publish(ch, data) == IF Len(ch) < DataChanCap THEN Append(ch, data) ELSE ch

\* if downloaded%1024*1024 == 0, which Go reads as (downloaded % 1024) * 1024.
ProgressDue(downloaded) == (downloaded % ProgressModulus) * 1024 = 0

\* The publish, downloaded += n, and the periodic progress update.
downloadTask_Publish(t) ==
    /\ worker[t].pc = "publish"
    /\ LET d == worker[t].downloaded + worker[t].n IN
          /\ task' = [task EXCEPT ![t].dataChan = Publish(@, <<worker[t].pos, worker[t].n>>)]
          /\ worker' = [worker EXCEPT ![t] = [@ EXCEPT
                !.pc = IF ProgressDue(d) THEN "progress" ELSE "loop",
                !.downloaded = d, !.pos = @ + worker[t].n, !.n = 0]]
    /\ UNCHANGED <<tasks, nTasks, files, logs, disk, client, upstream, restarts, mgrVars, fnVars, srvVars, lockVars>>

\* Update("downloaded_bytes", downloaded)
downloadTask_Progress(t) ==
    /\ worker[t].pc = "progress"
    /\ files' = DBUpdate(files, HashOf(t), [DownloadedBytes |-> worker[t].downloaded])
    /\ worker' = [worker EXCEPT ![t].pc = "loop"]
    /\ UNCHANGED <<tasks, nTasks, task, logs, disk, client, upstream, restarts, mgrVars, fnVars, srvVars, lockVars>>

\* io.EOF: Updates(download_status: "complete", downloaded_bytes, completed_at)
downloadTask_Complete(t) ==
    /\ worker[t].pc = "eof_db"
    /\ files' = DBUpdate(files, HashOf(t),
          [DownloadStatus |-> "complete", DownloadedBytes |-> worker[t].downloaded,
           Completed |-> TRUE])
    /\ worker' = [worker EXCEPT ![t].pc = "eof_status"]
    /\ UNCHANGED <<tasks, nTasks, task, logs, disk, client, upstream, restarts, mgrVars, fnVars, srvVars, lockVars>>

\* task.Status = "complete" under task.mu.
downloadTask_StatusComplete(t) ==
    /\ worker[t].pc = "eof_status"
    /\ task' = [task EXCEPT ![t].Status = "complete"]
    /\ worker' = [worker EXCEPT ![t].pc = "eof_close"]
    /\ UNCHANGED <<tasks, nTasks, files, logs, disk, client, upstream, restarts, mgrVars, fnVars, srvVars, lockVars>>

\* A close that the failure path leaves out.
closeTaskDataChan_NotOnFailure(tk) ==
    IF tk.closed = 0 /\ tk.Status # "failed" THEN [tk EXCEPT !.closed = 1] ELSE tk

\* A close that is left out.
closeTaskDataChan_Never(tk) == tk

\* task.closeOnce.Do(func() { close(task.dataChan) }): closed counts the
\* executions of close.
closeTaskDataChan(tk) == IF tk.closed = 0 THEN [tk EXCEPT !.closed = 1] ELSE tk

downloadTask_Close(t) ==
    /\ worker[t].pc = "eof_close"
    /\ task' = [task EXCEPT ![t] = closeTaskDataChan(@)]
    /\ worker' = [worker EXCEPT ![t] = Returned]
    /\ UNCHANGED <<tasks, nTasks, files, logs, disk, client, upstream, restarts, mgrVars, fnVars, srvVars, lockVars>>

\* ------------------------------------------ Scheduler.handleDownloadError
\* task.Status = "failed" under task.mu.
handleDownloadError_Status(t) ==
    /\ worker[t].pc = "err_status"
    /\ task' = [task EXCEPT ![t].Status = "failed"]
    /\ worker' = [worker EXCEPT ![t].pc = "err_close"]
    /\ UNCHANGED <<tasks, nTasks, files, logs, disk, client, upstream, restarts, mgrVars, fnVars, srvVars, lockVars>>

\* s.closeTaskDataChan(task)
handleDownloadError_Close(t) ==
    /\ worker[t].pc = "err_close"
    /\ task' = [task EXCEPT ![t] = closeTaskDataChan(@)]
    /\ worker' = [worker EXCEPT ![t].pc = "err_db"]
    /\ UNCHANGED <<tasks, nTasks, files, logs, disk, client, upstream, restarts, mgrVars, fnVars, srvVars, lockVars>>

\* Update("download_status", "failed")
handleDownloadError_MarkFailed(t) ==
    /\ worker[t].pc = "err_db"
    /\ files' = DBUpdate(files, HashOf(t), [DownloadStatus |-> "failed"])
    /\ worker' = [worker EXCEPT ![t].pc = "err_log"]
    /\ UNCHANGED <<tasks, nTasks, task, logs, disk, client, upstream, restarts, mgrVars, fnVars, srvVars, lockVars>>

\* s.db.Create(&database.Log{Level: "error", Message: errorMsg, ...})
handleDownloadError_Log(t) ==
    /\ worker[t].pc = "err_log"
    /\ logs' = [logs EXCEPT ![HashOf(t)] = Append(@, LogMessage(worker[t].err))]
    /\ worker' = [worker EXCEPT ![t] = Returned]
    /\ UNCHANGED <<tasks, nTasks, task, files, disk, client, upstream, restarts, mgrVars, fnVars, srvVars, lockVars>>

\* ------------------------------------------------------- the process
\* The process is stopped and started again: NewSchedulerWithClient builds an
\* empty task table, every goroutine is gone; the store and the cache
\* directory are what they were.  The new process gets RequestsAfterRestart
\* requests.
Restart ==
    /\ restarts < MaxRestarts
    /\ restarts' = restarts + 1
    /\ tasks' = [h \in Hashes |-> NoTask]
    /\ nTasks' = 0
    /\ task' = [t \in TaskIds |-> NoTaskObj]
    /\ worker' = [t \in TaskIds |-> NoWorker]
    /\ client' = [c \in Clients |->
          IF c <= RequestsAfterRestart THEN IdleClient ELSE [IdleClient EXCEPT !.pc = "off"]]
    /\ upstream' = [h \in Hashes |-> <<>>]
    /\ UNCHANGED <<files, logs, disk, mgrVars, fnVars, srvVars, lockVars>>

\* ============================================================ cache.Manager
\* The manager's view of the store: the table files as a set of rows with a
\* primary key, a unique index on file_hash and the column last_accessed_at,
\* and the cache directory as the sizes of its files.  The download status of
\* a row is data here: what the scheduler wrote before the calls below.
Fingerprints == 1..NumFingerprints
Callers == 1..NumCallers
NoSuchFile == 0 - 1
FileSizes == 1..MaxFileBytes
StoredStatuses == {"downloading", "complete"}

NoRow == [ID |-> 0, FileHash |-> 0, DownloadStatus |-> "", LastAccessedAt |-> 0]

\* A row the store holds when the calls begin: fingerprint h, last accessed
\* at some time before the calls.
StoredRow(h, status, at) ==
    [ID |-> h, FileHash |-> h, DownloadStatus |-> status, LastAccessedAt |-> at]

\* database.File{...} as GetOrCreateFile builds it; the primary key is given
\* by the store on Create.
NewRow(id, h, now) ==
    [ID |-> id, FileHash |-> h, DownloadStatus |-> "pending", LastAccessedAt |-> now]

\* An index on file_hash that rejects nothing.
UniqueIndexRejects_Off(rs, row) == FALSE

\* `gorm:"uniqueIndex;not null"` on File.FileHash: a row is rejected when
\* another row has its file_hash.
UniqueIndexRejects(rs, row) ==
    \E r \in rs : r.ID # row.ID /\ r.FileHash = row.FileHash

\* db.Where("file_hash = ?", h).First(&file): the row with the lowest primary
\* key, NoRow for gorm.ErrRecordNotFound.
First(rs, h) ==
    LET found == {r \in rs : r.FileHash = h} IN
    IF found = {} THEN NoRow
    ELSE CHOOSE r \in found : \A q \in found : r.ID <= q.ID

\* db.Create(&file): <<rows after, error>>.
Create(rs, row) ==
    IF UniqueIndexRejects(rs, row) THEN <<rs, TRUE>> ELSE <<rs \cup {row}, FALSE>>

\* db.Save(&file) of a row with a primary key: UPDATE of every column WHERE
\* id = file.ID and, when that changes no row, INSERT ... ON CONFLICT (id) DO
\* UPDATE (gorm 1.25); the error of the insert is not looked at.
Save(rs, row) ==
    IF \E r \in rs : r.ID = row.ID
    THEN {r \in rs : r.ID # row.ID} \cup {row}
    ELSE Create(rs, row)[1]

\* db.Delete(&file): DELETE WHERE id = file.ID.
Delete(rs, row) == {r \in rs : r.ID # row.ID}

\* os.Stat(file.SavedPath) succeeds; SavedPath is <cacheDir>/<fileHash>.
HasFile(cf, r) == cf[r.FileHash] # NoSuchFile

IdleCall == [pc |-> "idle", op |-> "", hash |-> 0, row |-> NoRow,
             err |-> FALSE, ret |-> NoRow]

\* No maintenance call has returned.
NoMaintenance == [n |-> 0, name |-> "", arg |-> 0]

ManagerIdle ==
    /\ rows = {}
    /\ nextID = 1
    /\ cacheFiles = [h \in Fingerprints |-> NoSuchFile]
    /\ clock = 0
    /\ call = [k \in Callers |-> IdleCall]
    /\ maint = NoMaintenance

\* A store and a cache directory as earlier processes may have left them: for
\* every fingerprint no row or one row, last accessed before now, and no file
\* or a file of some size.
ManagerInit ==
    /\ \E present \in SUBSET Fingerprints :
       \E status \in [present -> StoredStatuses], at \in [present -> 0..(MaxAge - 1)] :
          rows = {StoredRow(h, status[h], at[h]) : h \in present}
    /\ nextID = NumFingerprints + 1
    /\ cacheFiles \in [Fingerprints -> {NoSuchFile} \cup FileSizes]
    /\ clock = MaxAge
    /\ call = [k \in Callers |-> IdleCall]
    /\ maint = NoMaintenance

\* A caller asks for the record of a URL whose fingerprint is h
\* (GetOrCreateFile), or inserts a row with that file_hash (db.Create).
Manager_Call(k) ==
    /\ call[k].pc = "idle"
    /\ \E h \in Fingerprints, op \in {"GetOrCreateFile", "Create"} :
          call' = [call EXCEPT ![k] = [IdleCall EXCEPT
                      !.pc = IF op = "Create" THEN "insert" ELSE "first",
                      !.op = op, !.hash = h]]
    /\ UNCHANGED <<rows, nextID, cacheFiles, clock, maint, schedVars, fnVars, srvVars, lockVars>>

\* err := m.db.Where("file_hash = ?", fileHash).First(&file).Error
Manager_First(k) ==
    /\ call[k].pc = "first"
    /\ LET file == First(rows, call[k].hash) IN
          call' = [call EXCEPT ![k] =
              IF file # NoRow THEN [@ EXCEPT !.pc = "save", !.row = file]
              ELSE [@ EXCEPT !.pc = "create"]]
    /\ UNCHANGED <<rows, nextID, cacheFiles, clock, maint, schedVars, fnVars, srvVars, lockVars>>

\* file.LastAccessedAt = time.Now(); m.db.Save(&file); return &file, nil
Manager_Save(k) ==
    /\ call[k].pc = "save"
    /\ LET file == [call[k].row EXCEPT !.LastAccessedAt = clock] IN
          /\ rows' = Save(rows, file)
          /\ call' = [call EXCEPT ![k] = [@ EXCEPT
                !.pc = "done", !.row = NoRow, !.ret = file]]
    /\ UNCHANGED <<nextID, cacheFiles, clock, maint, schedVars, fnVars, srvVars, lockVars>>

\* m.db.Create(&file): return nil, err when it fails, &file, nil otherwise.
\* The autoincrement value is used up by a successful insert.
Manager_Create(k) ==
    /\ call[k].pc \in {"create", "insert"}
    /\ LET file == NewRow(nextID, call[k].hash, clock)
           res == Create(rows, file) IN
          /\ rows' = res[1]
          /\ nextID' = IF res[2] THEN nextID ELSE nextID + 1
          /\ call' = [call EXCEPT ![k] = [@ EXCEPT
                !.pc = "done", !.err = res[2],
                !.ret = IF res[2] THEN NoRow ELSE file]]
    /\ UNCHANGED <<cacheFiles, clock, maint, schedVars, fnVars, srvVars, lockVars>>

\* cutoff := time.Now().Add(-m.ttl); the rows Find returns for
\* "last_accessed_at < ? AND download_status = ?", cutoff, "complete".
Expired_AnyStatus(r, cutoff) == r.LastAccessedAt < cutoff

Expired(r, cutoff) == r.LastAccessedAt < cutoff /\ r.DownloadStatus = "complete"

\* for _, file := range files { os.Remove(file.SavedPath); m.db.Delete(&file) }
\* over a set of rows: <<rows after, cache directory after>>.
RECURSIVE RemoveEach(_, _, _)
RemoveEach(found, rs, cf) ==
    IF found = {} THEN <<rs, cf>>
    ELSE LET file == CHOOSE r \in found : TRUE IN
         RemoveEach(found \ {file}, Delete(rs, file),
                    [cf EXCEPT ![file.FileHash] = NoSuchFile])

CleanupExpiredFiles ==
    /\ maint.n < MaxMaintenance
    /\ LET cutoff == clock - TTL
           found == {r \in rows : Expired(r, cutoff)}
           res == RemoveEach(found, rows, cacheFiles) IN
          /\ rows' = res[1]
          /\ cacheFiles' = res[2]
          /\ maint' = [n |-> maint.n + 1, name |-> "CleanupExpiredFiles", arg |-> cutoff]
    /\ UNCHANGED <<nextID, clock, call, schedVars, fnVars, srvVars, lockVars>>

\* A listing in which the rows come in any order.
Listings_Unordered(rs) ==
    {s \in [1..Cardinality(rs) -> rs] : \A i, j \in DOMAIN s : i # j => s[i] # s[j]}

\* m.db.Order("last_accessed_at ASC").Find(&files): every row once, the least
\* recently accessed first; rows of equal time in any order.
Listings(rs) ==
    {s \in [1..Cardinality(rs) -> rs] :
        /\ \A i, j \in DOMAIN s : i # j => s[i] # s[j]
        /\ \A i, j \in DOMAIN s : i < j => s[i].LastAccessedAt <= s[j].LastAccessedAt}

\* file.DownloadStatus == "complete" and os.Stat(file.SavedPath) succeeds.
Evictable(file, cf) == file.DownloadStatus = "complete" /\ HasFile(cf, file)

\* The first loop of LRUEvict: totalSize.
RECURSIVE CompleteBytes(_, _)
CompleteBytes(fs, cf) ==
    IF fs = <<>> THEN 0
    ELSE (IF Evictable(Head(fs), cf) THEN cf[Head(fs).FileHash] ELSE 0)
         + CompleteBytes(Tail(fs), cf)

\* The second loop: break when totalSize <= targetSize; a complete row with a
\* file loses the file (os.Remove) and is deleted, and its size leaves the
\* total.  <<rows after, cache directory after>>.
RECURSIVE EvictUntil(_, _, _, _, _)
EvictUntil(fs, totalSize, targetSize, rs, cf) ==
    IF fs = <<>> \/ totalSize <= targetSize THEN <<rs, cf>>
    ELSE LET file == Head(fs) IN
         IF Evictable(file, cf)
         THEN EvictUntil(Tail(fs), totalSize - cf[file.FileHash], targetSize,
                         Delete(rs, file), [cf EXCEPT ![file.FileHash] = NoSuchFile])
         ELSE EvictUntil(Tail(fs), totalSize, targetSize, rs, cf)

\* Values of targetSize: from nothing to everything the cache can hold.
TargetSizes == 0..(NumFingerprints * MaxFileBytes)

LRUEvict ==
    /\ maint.n < MaxMaintenance
    /\ \E targetSize \in TargetSizes, fs \in Listings(rows) :
          LET res == EvictUntil(fs, CompleteBytes(fs, cacheFiles), targetSize,
                                rows, cacheFiles) IN
             /\ rows' = res[1]
             /\ cacheFiles' = res[2]
             /\ maint' = [n |-> maint.n + 1, name |-> "LRUEvict", arg |-> targetSize]
    /\ UNCHANGED <<nextID, clock, call, schedVars, fnVars, srvVars, lockVars>>

\* Time passes.
Tick ==
    /\ clock < MaxAge + MaxTicks
    /\ clock' = clock + 1
    /\ UNCHANGED <<rows, nextID, cacheFiles, call, maint, schedVars, fnVars, srvVars, lockVars>>

ManagerStep(k) ==
    \/ Manager_Call(k)
    \/ Manager_First(k)
    \/ Manager_Save(k)
    \/ Manager_Create(k)

NextM ==
    \/ \E k \in Callers : ManagerStep(k)
    \/ CleanupExpiredFiles
    \/ LRUEvict
    \/ Tick

\* ================================================ functions of package cache
\* Strings are sequences of characters.  A URL is kept by its parts and passed
\* to the functions as the string https://<host><dir>/<name>[?<query>].
Scheme == <<"h", "t", "t", "p", "s", ":", "/", "/">>

URLString(u) ==
    Scheme \o u.host \o u.dir \o <<"/">> \o u.name
           \o (IF u.query = <<>> THEN <<>> ELSE <<"?">> \o u.query)

\* The URLs of the calls: two hosts, one of them matching the rule domains;
\* directories with and without the domain in them; a query with a slash.
HostNames == {<<"c", "d", "n">>, <<"o">>}
Dirs == {<<>>, <<"/", "c", "d", "n">>, <<"/", "p">>}
Names == {<<"v", ".", "m", "p", "4">>, <<"i">>}
Queries == {<<>>, <<"k", "=", "/", "x">>}
URLs == [host : HostNames, dir : Dirs, name : Names, query : Queries]
Cookies == {<<>>, <<"s">>}
Strategies == {"filename_only", "full_url", ""}
Domains == {<<"c", "d", "n">>, <<"d">>}
\* No pattern, the rule pattern of the proxy tests, the pattern of
\* TestMatchCDNRule, and a pattern that does not compile.
Patterns == {"", ".*", "\\.mp4$", "("}

\* strings.Contains(s, substr)
Contains(s, substr) ==
    \E i \in 1..(Len(s) - Len(substr) + 1) : SubSeq(s, i, i + Len(substr) - 1) = substr

\* strings.Index(s, ch), counted from 1; 0 for Go's -1.
Index(s, ch) ==
    IF \E i \in 1..Len(s) : s[i] = ch
    THEN CHOOSE i \in 1..Len(s) : s[i] = ch /\ \A j \in 1..(i - 1) : s[j] # ch
    ELSE 0

\* parts := strings.Split(url, "/"); parts[len(parts)-1]
LastPart(s) ==
    LET slashes == {i \in 1..Len(s) : s[i] = "/"} IN
    IF slashes = {} THEN s
    ELSE SubSeq(s, (CHOOSE i \in slashes : \A j \in slashes : j <= i) + 1, Len(s))

\* A filename that keeps the whole URL.
Filename_WithPath(url) == url

\* case "filename_only": the last part of the URL, cut at its first "?".
Filename(url) ==
    LET filename == LastPart(url)
        idx == Index(filename, "?") IN
    IF idx # 0 THEN SubSeq(filename, 1, idx - 1) ELSE filename

\* if cookie != "" { hashInput += "|" + cookie }
WithCookie(hashInput, cookie) ==
    IF cookie # <<>> THEN hashInput \o <<"|">> \o cookie ELSE hashInput

\* hex.EncodeToString(sha256.Sum256([]byte(hashInput))): a string of its own
\* for every input (no two of the inputs used here collide under SHA-256).
Sha256Hex(hashInput) == <<"sha256">> \o hashInput

ComputeFileHash(url, cookie, strategy) ==
    Sha256Hex(IF strategy = "filename_only" THEN WithCookie(Filename(url), cookie)
              ELSE IF strategy = "full_url" THEN WithCookie(url, cookie)
              ELSE url)

\* strings.HasSuffix(s, suffix)
HasSuffix(s, suffix) ==
    Len(s) >= Len(suffix) /\ SubSeq(s, Len(s) - Len(suffix) + 1, Len(s)) = suffix

\* regexp.MatchString(pattern, s) for the patterns above: <<matched, err>>.
MatchString(pattern, s) ==
    IF pattern = ".*" THEN <<TRUE, FALSE>>
    ELSE IF pattern = "\\.mp4$" THEN <<HasSuffix(s, <<".", "m", "p", "4">>), FALSE>>
    ELSE IF pattern = "" THEN <<TRUE, FALSE>>
    ELSE <<FALSE, TRUE>>

MatchCDNRule(url, domain, pattern) ==
    IF ~Contains(url, domain) THEN FALSE
    ELSE IF pattern # "" /\ (MatchString(pattern, url)[2] \/ ~MatchString(pattern, url)[1])
    THEN FALSE
    ELSE TRUE

\* No function is under call.
FnIdle == arg = <<>> /\ ret = <<>>

\* The arguments of the calls of one behaviour: ComputeFileHash is called on
\* two URLs with one cookie and one strategy, MatchCDNRule on one URL with one
\* rule.
FnInit ==
    /\ arg \in [fn : {"ComputeFileHash"}, url : URLs, url2 : URLs, cookie : Cookies,
                strategy : Strategies, domain : {<<>>}, pattern : {""}]
          \cup [fn : {"MatchCDNRule"}, url : URLs,
                url2 : {CHOOSE u \in URLs : TRUE}, cookie : {<<>>},
                strategy : {""}, domain : Domains, pattern : Patterns]
    /\ ret = <<>>

\* fileHash := m.ComputeFileHash(url, cookie, strategy), on either URL.
ComputeFileHash_Call ==
    /\ arg.fn = "ComputeFileHash"
    /\ Len(ret) < MaxCalls
    /\ \E u \in {arg.url, arg.url2} :
          ret' = Append(ret, [url |-> u,
                              out |-> ComputeFileHash(URLString(u), arg.cookie, arg.strategy)])
    /\ UNCHANGED <<arg, schedVars, mgrVars, srvVars, lockVars>>

\* cache.MatchCDNRule(urlStr, rule.Domain, rule.MatchPattern) of findMatchingRule.
MatchCDNRule_Call ==
    /\ arg.fn = "MatchCDNRule"
    /\ ret = <<>>
    /\ ret' = <<[url |-> arg.url,
                 out |-> MatchCDNRule(URLString(arg.url), arg.domain, arg.pattern)]>>
    /\ UNCHANGED <<arg, schedVars, mgrVars, srvVars, lockVars>>

NextF == ComputeFileHash_Call \/ MatchCDNRule_Call

\* ------------------------------------------------ the scheduler's locks
\* The code of the scheduler at the grain of its lock, channel and I/O
\* operations.  One file is asked for, so s.tasks holds one task or none.  A
\* goroutine is a caller of the scheduler or the goroutine StartDownload
\* starts; an operation is <<kind, object>>; a function is the sequence of
\* its operations, which depends on what the goroutine has read so far.
OneHash == CHOOSE h \in Hashes : \A k \in Hashes : h <= k
OneTask == CHOOSE t \in TaskIds : \A k \in TaskIds : t <= k
Entrants == {"caller"} \X Clients
Downloader == <<"downloadTask", OneTask>>
Goroutines == Entrants \cup {Downloader}
NoOne == <<>>

\* s.mu: w holds rw.w, the mutex of the writers, locked tells that the readers
\* have drained, r the readers in.  t is task.mu.
NoLocks == [s |-> [w |-> NoOne, locked |-> FALSE, r |-> {}], t |-> NoOne]
\* ops is the function under way as its operations, given what was read.
IdleRun == [todo |-> <<>>, ops |-> <<>>, i |-> 1, reads |-> <<>>, calls |-> 0]
LockIdle == mu = NoLocks /\ run = [g \in Goroutines |-> IdleRun]

Rd(reads, k) == IF k <= Len(reads) THEN reads[k] ELSE ""

\* task.mu.Lock(); status := task.Status; task.mu.Unlock()
ReadStatus == <<<<"Lock", "task.mu">>, <<"Data", "status">>, <<"Unlock", "task.mu">>>>
SetStatus(status) == <<<<"Lock", "task.mu">>, <<"Data", status>>, <<"Unlock", "task.mu">>>>

GetActiveTaskCount_Ops(reads) ==
    <<<<"RLock", "s.mu">>, <<"Data", "range">>>>
    \o (IF Rd(reads, 1) = "task" THEN ReadStatus ELSE <<>>)
    \o <<<<"RUnlock", "s.mu">>>>

\* The pause inside the first loop, by a blocking send.
PauseLowPriorityTasks_Held(reads) ==
    <<<<"RLock", "s.mu">>, <<"Data", "range">>>>
    \o (IF Rd(reads, 1) = "task"
        THEN <<<<"Lock", "task.mu">>, <<"Data", "shouldPause">>, <<"Data", "pause">>>>
             \o (IF Rd(reads, 3) = "paused" THEN <<<<"Send", "pauseChan">>>> ELSE <<>>)
             \o <<<<"Unlock", "task.mu">>>>
        ELSE <<>>)
    \o <<<<"RUnlock", "s.mu">>>>

PauseLowPriorityTasks_Ops(reads) ==
    <<<<"RLock", "s.mu">>, <<"Data", "range">>>>
    \o (IF Rd(reads, 1) = "task"
        THEN <<<<"Lock", "task.mu">>, <<"Data", "shouldPause">>, <<"Unlock", "task.mu">>>>
        ELSE <<>>)
    \o <<<<"RUnlock", "s.mu">>>>
    \o (IF Rd(reads, 1) = "task" /\ Rd(reads, 2) = "yes"
        THEN <<<<"Lock", "task.mu">>, <<"Data", "pause">>>>
             \o (IF Rd(reads, 3) = "paused" THEN <<<<"TrySend", "pauseChan">>>> ELSE <<>>)
             \o <<<<"Unlock", "task.mu">>>>
        ELSE <<>>)

StartDownload_Ops(priority, reads) ==
    <<<<"Lock", "s.mu">>, <<"Data", "find">>>>
    \o (IF Rd(reads, 1) = "task"
        THEN <<<<"Unlock", "s.mu">>, <<"Lock", "task.mu">>, <<"Data", "status">>,
               <<"Data", "priority", priority>>, <<"Unlock", "task.mu">>>>
             \o (IF Rd(reads, 2) = "paused" THEN <<<<"Send", "resumeChan">>>> ELSE <<>>)
        ELSE <<<<"Data", "insert", priority>>, <<"Unlock", "s.mu">>, <<"Go", "downloadTask">>>>)

\* StreamFile up to needsStart.
StreamFile_Ops(reads) ==
    <<<<"RLock", "s.mu">>, <<"Data", "find">>, <<"RUnlock", "s.mu">>>>
    \o (IF Rd(reads, 1) = "task" THEN ReadStatus ELSE <<>>)

needsStart(reads) ==
    Rd(reads, 1) # "task" \/ Rd(reads, 2) \notin {"downloading", "complete"}

\* task = s.tasks[file.FileHash] after StartDownload.
StreamFile_Started(reads) ==
    <<<<"RLock", "s.mu">>, <<"Data", "find">>, <<"RUnlock", "s.mu">>>>

\* StreamFile from os.Stat on: the two waits, the headers, the file, the
\* channel.
StreamFile_Stream(reads) ==
    <<<<"Disk", "os.Stat">>>> \o ReadStatus \o ReadStatus \o ReadStatus
    \o (IF Rd(reads, 3) = "failed"
        THEN <<<<"Net", "w.Write">>>>
        ELSE <<<<"Net", "w.WriteHeader">>, <<"Disk", "io.Copy">>,
               <<"Recv", "dataChan">>, <<"Net", "w.Write">>>>)

\* downloadTask with one chunk before io.EOF.
downloadTask_Ops(reads) ==
    SetStatus("downloading")
    \o <<<<"Disk", "db.Updates">>, <<"Net", "client.Do">>>>
    \o SetStatus("meta") \o SetStatus("meta")
    \o <<<<"Disk", "db.Updates">>, <<"Disk", "os.OpenFile">>, <<"Data", "select">>>>
    \o (IF Rd(reads, 1) = "pauseChan"
        THEN SetStatus("paused") \o <<<<"Recv", "resumeChan">>>> \o SetStatus("downloading")
        ELSE <<>>)
    \o <<<<"Net", "resp.Body.Read">>, <<"Disk", "file.Write">>, <<"TrySend", "dataChan">>,
         <<"Disk", "db.Updates">>>>
    \o SetStatus("complete")
    \o <<<<"Close", "dataChan">>>>

Ops(fn, reads) ==
    CASE fn[1] = "GetActiveTaskCount" -> GetActiveTaskCount_Ops(reads)
      [] fn[1] = "PauseLowPriorityTasks" -> PauseLowPriorityTasks_Ops(reads)
      [] fn[1] = "StartDownload" -> StartDownload_Ops(fn[2], reads)
      [] fn[1] = "StreamFile" -> StreamFile_Ops(reads)
      [] fn[1] = "StreamFile_Started" -> StreamFile_Started(reads)
      [] fn[1] = "StreamFile_Stream" -> StreamFile_Stream(reads)
      [] fn[1] = "downloadTask" -> downloadTask_Ops(reads)

\* What follows a call: StreamFile goes on to start the download or to stream.
Then(fn, reads) ==
    IF fn[1] # "StreamFile" THEN <<>>
    ELSE IF needsStart(reads)
    THEN <<<<"PauseLowPriorityTasks">>, <<"StartDownload", StreamPriority>>,
           <<"StreamFile_Started">>, <<"StreamFile_Stream">>>>
    ELSE <<<<"StreamFile_Stream">>>>

\* The operation a goroutine is at.
Cur(g) ==
    IF run[g].todo = <<>> THEN <<"Idle", "">>
    ELSE IF run[g].i <= Len(run[g].ops) THEN run[g].ops[run[g].i]
    ELSE <<"Return", "">>

At(g, kind, object) == Cur(g)[1] = kind /\ Cur(g)[2] = object
HoldsS(g) == (mu.s.w = g /\ mu.s.locked) \/ g \in mu.s.r
Step(g) == [run EXCEPT ![g].i = @ + 1]
StepRead(g, v) ==
    [run EXCEPT ![g].i = @ + 1, ![g].reads = Append(@, v),
                ![g].ops = Ops(Head(run[g].todo), Append(run[g].reads, v))]
Enter(r, todo) ==
    [r EXCEPT !.todo = todo, !.i = 1, !.reads = <<>>,
              !.ops = IF todo = <<>> THEN <<>> ELSE Ops(Head(todo), <<>>)]
LockRest == <<files, logs, disk, client, upstream, restarts, worker, mgrVars, fnVars, srvVars>>

\* The calls made so far.
RECURSIVE SumCalls(_, _)
SumCalls(r, gs) ==
    IF gs = {} THEN 0
    ELSE LET g == CHOOSE x \in gs : TRUE IN r[g].calls + SumCalls(r, gs \ {g})
Entered(r) == SumCalls(r, Entrants)

\* A caller enters the scheduler: the status handler, a proxy request, the
\* prefetch of a plugin.
Call(g) ==
    /\ g \in Entrants /\ run[g].todo = <<>> /\ Entered(run) < MaxCalls
    /\ \E fn \in {<<"GetActiveTaskCount">>, <<"StreamFile">>, <<"StartDownload", LowPriority>>} :
          run' = [run EXCEPT ![g] = Enter([@ EXCEPT !.calls = @ + 1], <<fn>>)]
    /\ UNCHANGED <<mu, tasks, nTasks, task, LockRest>>

Return(g) ==
    /\ Cur(g)[1] = "Return"
    /\ run' = [run EXCEPT ![g] =
          Enter(@, Then(Head(@.todo), @.reads) \o Tail(@.todo))]
    /\ UNCHANGED <<mu, tasks, nTasks, task, LockRest>>

\* s.mu.Lock() begins by locking rw.w, which keeps later readers out.
Lock_Writers(g) ==
    /\ At(g, "Lock", "s.mu") /\ mu.s.w = NoOne
    /\ mu' = [mu EXCEPT !.s.w = g]
    /\ UNCHANGED <<run, tasks, nTasks, task, LockRest>>

CanAcquire(g) ==
    \/ At(g, "Lock", "s.mu") /\ mu.s.w = g /\ mu.s.r = {}
    \/ At(g, "RLock", "s.mu") /\ mu.s.w = NoOne
    \/ At(g, "Lock", "task.mu") /\ mu.t = NoOne

Acquire(g) ==
    /\ CanAcquire(g)
    /\ mu' = IF At(g, "Lock", "s.mu") THEN [mu EXCEPT !.s.locked = TRUE]
             ELSE IF At(g, "RLock", "s.mu") THEN [mu EXCEPT !.s.r = @ \cup {g}]
             ELSE [mu EXCEPT !.t = g]
    /\ run' = Step(g)
    /\ UNCHANGED <<tasks, nTasks, task, LockRest>>

Release(g) ==
    /\ Cur(g)[1] \in {"Unlock", "RUnlock"}
    /\ mu' = IF At(g, "Unlock", "s.mu") THEN [mu EXCEPT !.s.w = NoOne, !.s.locked = FALSE]
             ELSE IF At(g, "RUnlock", "s.mu") THEN [mu EXCEPT !.s.r = @ \ {g}]
             ELSE [mu EXCEPT !.t = NoOne]
    /\ run' = Step(g)
    /\ UNCHANGED <<tasks, nTasks, task, LockRest>>

\* The reads and writes of s.tasks and of the fields of the task.
Data(g) ==
    /\ Cur(g)[1] = "Data"
    /\ LET what == Cur(g)[2]
           tk == task[OneTask] IN
       CASE what \in {"range", "find"} ->
              /\ run' = StepRead(g, IF tasks[OneHash] = NoTask THEN "nil" ELSE "task")
              /\ UNCHANGED <<tasks, nTasks, task>>
         [] what = "insert" ->
              /\ tasks' = [tasks EXCEPT ![OneHash] = OneTask]
              /\ nTasks' = nTasks + 1
              /\ task' = [task EXCEPT ![OneTask] = [NoTaskObj EXCEPT
                    !.FileHash = OneHash, !.Priority = Cur(g)[3], !.Status = "pending"]]
              /\ run' = Step(g)
         [] what = "status" ->
              /\ run' = StepRead(g, tk.Status)
              /\ UNCHANGED <<tasks, nTasks, task>>
         [] what = "shouldPause" ->
              /\ run' = StepRead(g, IF tk.Status = "downloading" /\ tk.Priority < StreamPriority
                                    THEN "yes" ELSE "no")
              /\ UNCHANGED <<tasks, nTasks, task>>
         [] what = "priority" ->
              /\ task' = [task EXCEPT ![OneTask].Priority = Cur(g)[3]]
              /\ run' = Step(g)
              /\ UNCHANGED <<tasks, nTasks>>
         [] what = "pause" ->
              /\ task' = [task EXCEPT ![OneTask].Status =
                              IF @ = "downloading" THEN "paused" ELSE @]
              /\ run' = StepRead(g, IF tk.Status = "downloading" THEN "paused" ELSE "kept")
              /\ UNCHANGED <<tasks, nTasks>>
         [] what = "select" ->
              \* no sender is ever parked on pauseChan
              /\ run' = StepRead(g, "default")
              /\ UNCHANGED <<tasks, nTasks, task>>
         [] what = "meta" ->
              /\ run' = Step(g)
              /\ UNCHANGED <<tasks, nTasks, task>>
         [] OTHER ->
              /\ task' = [task EXCEPT ![OneTask].Status = what]
              /\ run' = Step(g)
              /\ UNCHANGED <<tasks, nTasks>>
    /\ UNCHANGED <<mu, LockRest>>

\* A request, a read or a write on the network or the disk.
IO(g) ==
    /\ Cur(g)[1] \in {"Net", "Disk"}
    /\ run' = Step(g)
    /\ UNCHANGED <<mu, tasks, nTasks, task, LockRest>>

\* Whether the channel operation a goroutine is at can go through now.
CanPass(g) ==
    CASE Cur(g)[1] \in {"TrySend", "Close"} -> TRUE
      [] At(g, "Recv", "dataChan") ->
            task[OneTask].dataChan # <<>> \/ task[OneTask].closed > 0
      [] At(g, "Send", "resumeChan") -> At(Downloader, "Recv", "resumeChan")
      [] At(g, "Recv", "resumeChan") -> \E c \in Entrants : At(c, "Send", "resumeChan")
      [] OTHER -> FALSE

\* The channel operations; a blocking send goes through together with the
\* receive it meets.
Chan(g) ==
    /\ Cur(g)[1] \in {"TrySend", "Close", "Send", "Recv"}
    /\ CanPass(g)
    /\ IF At(g, "Send", "resumeChan")
       THEN /\ run' = [Step(g) EXCEPT ![Downloader].i = @ + 1]
            /\ UNCHANGED task
       ELSE /\ ~At(g, "Recv", "resumeChan")
            /\ run' = Step(g)
            /\ task' = [task EXCEPT ![OneTask] =
                  IF At(g, "TrySend", "dataChan") THEN [@ EXCEPT !.dataChan = Publish(@, <<0, 1>>)]
                  ELSE IF At(g, "Close", "dataChan") THEN closeTaskDataChan(@)
                  ELSE IF At(g, "Recv", "dataChan") /\ @.dataChan # <<>>
                  THEN [@ EXCEPT !.dataChan = Tail(@)]
                  ELSE @]
    /\ UNCHANGED <<mu, tasks, nTasks, LockRest>>

\* go func() { s.downloadTask(task) }()
Go(g) ==
    /\ Cur(g)[1] = "Go"
    /\ run' = [Step(g) EXCEPT ![Downloader] = Enter(IdleRun, <<<<"downloadTask">>>>)]
    /\ UNCHANGED <<mu, tasks, nTasks, task, LockRest>>

NextL ==
    \E g \in Goroutines :
        \/ Call(g) \/ Return(g) \/ Lock_Writers(g) \/ Acquire(g) \/ Release(g)
        \/ Data(g) \/ IO(g) \/ Chan(g) \/ Go(g)

\* ------------------------------------------------------ proxy.SOCKS5Proxy
\* A host is a sequence of tokens, "[::1]" being <<"[", "::1", "]">>, and an
\* authority a host followed, where there is a port, by ":" and the port.
Schemes == {"http", "https"}
TargetHosts == {<<"o.example">>, <<"127.0.0.1">>, <<"::1">>, <<"[", "::1", "]">>}
\* extractSOCKS5Target refuses port 0.
TargetPorts == {80, 443, 8080}
IPv6Literals == {<<"::1">>}

\* What http.ReadRequest hands over: Host is the Host header of the client (empty
\* when it sent none), URL what the request line holds.
TunnelRequests ==
    [Host : {<<>>, <<"o.example">>, <<"other.example">>},
     URL : [Scheme : {""}, Host : {<<>>}, Path : {"", "/f"}],
     Close : BOOLEAN]

\* strings.TrimPrefix(strings.TrimSuffix(host, "]"), "[")
TrimBrackets(host) ==
    LET a == IF host # <<>> /\ host[Len(host)] = "]" THEN SubSeq(host, 1, Len(host) - 1) ELSE host
    IN  IF a # <<>> /\ a[1] = "[" THEN Tail(a) ELSE a

\* net.JoinHostPort: a host that holds a colon is put in brackets.
JoinHostPort(host, port) ==
    IF host \in IPv6Literals THEN <<"[">> \o host \o <<"]", ":", port>>
    ELSE host \o <<":", port>>

DefaultPort(scheme) ==
    CASE scheme = "http" -> 80
      [] scheme = "https" -> 443
      [] OTHER -> 0

formatTargetAuthority(host, port, scheme) ==
    LET normalizedHost == TrimBrackets(host) IN
    IF port # 0 /\ port # DefaultPort(scheme) THEN JoinHostPort(normalizedHost, port)
    ELSE IF normalizedHost \in IPv6Literals THEN <<"[">> \o normalizedHost \o <<"]">>
    ELSE normalizedHost

normalizeSOCKS5Request(req, scheme, host, port) ==
    LET authority == formatTargetAuthority(host, port, scheme) IN
    [req EXCEPT !.URL.Scheme = scheme,
                !.URL.Host = authority,
                !.Host = IF @ = <<>> THEN authority ELSE @,
                !.URL.Path = IF @ = "" THEN "/" ELSE @]

\* An intercepted tunnel to a target, before its first request.
TunnelInit ==
    /\ arg \in [fn : {"handleMITMConnection"}, scheme : Schemes, host : TargetHosts,
                port : TargetPorts, pc : {"read"}]
    /\ ret = <<>>

\* One turn of the loop of handleMITMConnection: a request is read, normalized
\* and processed; the loop ends after a request that asks for the connection
\* to be closed.
handleMITMConnection_Serve ==
    /\ arg.fn = "handleMITMConnection" /\ arg.pc = "read"
    /\ Len(ret) < MaxCalls
    /\ \E req \in TunnelRequests :
          /\ ret' = Append(ret, [in |-> req,
                                 req |-> normalizeSOCKS5Request(req, arg.scheme, arg.host, arg.port)])
          /\ arg' = [arg EXCEPT !.pc = IF req.Close THEN "returned" ELSE "read"]
    /\ UNCHANGED <<schedVars, mgrVars, srvVars, lockVars>>

\* http.ReadRequest fails: the client has closed the tunnel.
handleMITMConnection_EOF ==
    /\ arg.fn = "handleMITMConnection" /\ arg.pc = "read"
    /\ arg' = [arg EXCEPT !.pc = "returned"]
    /\ UNCHANGED <<ret, schedVars, mgrVars, srvVars, lockVars>>

NextS == handleMITMConnection_Serve \/ handleMITMConnection_EOF

\* --------------------------------------------------- proxy.UnifiedServer
\* Bytes are numbers, and what a client sends on a connection is a sequence of
\* bytes. A request path is the sequence of its parts after the leading "/",
\* cut at every "/": "/status/" is <<"status", "">>.
SOCKS5Version == 5
TLSHandshake == 22
PeekMore == 3

\* "GET ", "POST", "CONN", "HEAD", "PUT ".
HTTPMethods ==
    {<<71, 69, 84, 32>>, <<80, 79, 83, 84>>, <<67, 79, 78, 78>>,
     <<72, 69, 65, 68>>, <<80, 85, 84, 32>>}

ProxyModes == {"http", "socks5", "url_path", "all"}

\* What the clients send: a SOCKS5 greeting; a TLS ClientHello, carrying a
\* request for /status; GET http://o/f and GET /https://cdn/f; GET /status;
\* DELETE http://o/f; bytes that are no request; nothing at all. ok tells
\* whether http.ReadRequest parses the bytes once it has them all.
Requests ==
    {[bytes |-> <<5, 1, 0>>, ok |-> FALSE, path |-> <<>>],
     [bytes |-> <<22, 3, 1, 2, 0>>, ok |-> TRUE, path |-> <<"status">>],
     [bytes |-> <<71, 69, 84, 32, 104>>, ok |-> TRUE, path |-> <<"f">>],
     [bytes |-> <<71, 69, 84, 32, 47, 104>>, ok |-> TRUE,
      path |-> <<"https:", "", "cdn", "f">>],
     [bytes |-> <<71, 69, 84, 32, 47, 115>>, ok |-> TRUE, path |-> <<"status">>],
     [bytes |-> <<68, 69, 76, 69, 84, 69>>, ok |-> TRUE, path |-> <<"f">>],
     [bytes |-> <<0, 1>>, ok |-> FALSE, path |-> <<>>],
     [bytes |-> <<>>, ok |-> FALSE, path |-> <<>>]}

\* The sizes of the buffers a reader of the connection passes to Read.
BufSizes == 1 .. MaxBuf

NoConn ==
    [mode |-> "", req |-> [bytes |-> <<>>, ok |-> FALSE, path |-> <<>>], pos |-> 0,
     buffer |-> <<>>, peeked |-> FALSE, protocol |-> "", handler |-> "none",
     got |-> <<>>, route |-> "", pc |-> "idle"]

\* s.socks5Proxy of NewUnifiedServer: built for two of the modes, nil otherwise.
\* mitmProxy and reverseProxy are built for every mode.
HasSOCKS5Proxy(mode) == mode = "all" \/ mode = "socks5"

\* strings.HasPrefix(path, "/" + a + "/" + b + "/").
HasPathPrefix(path, a, b) == Len(path) >= 3 /\ path[1] = a /\ path[2] = b

\* The handler UnifiedServer.ServeHTTP passes a request of this path to.
ServeHTTP(path) ==
    IF path = <<"api", "status">> \/ path = <<"api", "status", "">> THEN "statusHandler"
    ELSE IF path = <<"status">> \/ path = <<"status", "">> THEN "statusHandler"
    ELSE IF HasPathPrefix(path, "cache", "yt") THEN "handleCacheYT"
    ELSE IF HasPathPrefix(path, "http:", "") \/ HasPathPrefix(path, "https:", "")
    THEN "reverseProxy"
    ELSE "mitmProxy"

\* detectProtocol on the bytes its one or two reads have put in conn.buffer.
detectProtocol(buffer) ==
    IF buffer[1] = SOCKS5Version THEN "socks5"
    ELSE IF Len(buffer) >= 4 /\ SubSeq(buffer, 1, 4) \in HTTPMethods THEN "http"
    ELSE IF buffer[1] = TLSHandshake THEN "https"
    ELSE "http"

\* The numbers of bytes the second read of detectProtocol can return: it is
\* not made after a first byte 0x05, it asks for three bytes, and it returns
\* what has arrived, or nothing with an error.
MoreRead(bytes) ==
    IF bytes[1] = SOCKS5Version THEN {0} ELSE 0 .. Min(PeekMore, Len(bytes) - 1)

\* The switch of handleConnection: who gets the connection ("none": closed).
\* The root CA is at hand, GenerateCertificate("localhost") succeeds.
Dispatch(protocol, mode) ==
    IF protocol = "socks5" THEN (IF HasSOCKS5Proxy(mode) THEN "socks5" ELSE "none")
    ELSE IF protocol = "https" THEN "tls"
    ELSE IF protocol = "http" THEN "http"
    ELSE "none"

\* go s.handleConnection(conn) up to the call of the protocol's handler:
\* detectProtocol's reads, then the switch.
handleConnection ==
    /\ conn.pc = "accepted"
    /\ LET bytes == conn.req.bytes IN
       IF bytes = <<>>
       THEN conn' = [conn EXCEPT !.pc = "closed"]
       ELSE \E more \in MoreRead(bytes) :
               LET buffer == SubSeq(bytes, 1, 1 + more)
                   protocol == detectProtocol(buffer)
                   handler == Dispatch(protocol, conn.mode) IN
               conn' = [conn EXCEPT !.buffer = buffer, !.pos = 1 + more,
                                    !.protocol = protocol, !.handler = handler,
                                    !.pc = IF handler = "none" THEN "closed"
                                           ELSE "serving"]
    /\ UNCHANGED <<w, pki, schedVars, mgrVars, fnVars, lockVars>>

\* peekConn.Read(b) with len(b) = size, called by the handler's reader. The
\* read of the net.Conn below returns between one and len(b) of the bytes not
\* yet read, and waits while there is none.
peekConn_Read(size) ==
    /\ conn.pc = "serving"
    /\ IF ~conn.peeked /\ Len(conn.buffer) > 0
       THEN LET n == Min(size, Len(conn.buffer)) IN
            conn' = [conn EXCEPT
                        !.got = @ \o SubSeq(conn.buffer, 1, n),
                        !.buffer = IF n < Len(conn.buffer)
                                   THEN SubSeq(conn.buffer, n + 1, Len(conn.buffer))
                                   ELSE <<>>,
                        !.peeked = TRUE]
       ELSE /\ conn.pos < Len(conn.req.bytes)
            /\ \E n \in 1 .. Min(size, Len(conn.req.bytes) - conn.pos) :
                  conn' = [conn EXCEPT
                              !.got = @ \o SubSeq(conn.req.bytes, conn.pos + 1, conn.pos + n),
                              !.pos = conn.pos + n]
    /\ UNCHANGED <<w, pki, schedVars, mgrVars, fnVars, lockVars>>

\* handleHTTPConnection: http.ReadRequest on what the reader was given, once
\* the client has nothing more to send, then s.ServeHTTP(w, req); the
\* connection is closed when the bytes read are no request.
handleHTTPConnection ==
    /\ conn.pc = "serving"
    /\ conn.handler \in {"http", "tls"}
    /\ conn.pos = Len(conn.req.bytes)
    /\ conn.peeked \/ conn.buffer = <<>>
    /\ IF conn.got = conn.req.bytes /\ conn.req.ok
       THEN conn' = [conn EXCEPT !.route = ServeHTTP(conn.req.path), !.pc = "served"]
       ELSE conn' = [conn EXCEPT !.pc = "closed"]
    /\ UNCHANGED <<w, pki, schedVars, mgrVars, fnVars, lockVars>>

\* listener.Accept() has returned a connection of a client that sends one of
\* the requests, in a server built for one of the modes.
ConnInit ==
    conn \in {[NoConn EXCEPT !.mode = m, !.req = r, !.pc = "accepted"] :
                 m \in ProxyModes, r \in Requests}

NextN ==
    \/ handleConnection
    \/ \E size \in BufSizes : peekConn_Read(size)
    \/ handleHTTPConnection

\* ------------------------------------------------- proxy.responseWriter
\* What the writer puts into w.writer is a sequence of tokens: the status
\* line with the header block and its empty line, the line that carries a
\* chunk size, "\r\n", and one token per body byte.
HeaderNames == {"Content-Length", "Transfer-Encoding"}
StatusCodes == {200, 502}
WriteSizes == 0 .. MaxWriteBytes

HeaderBlock(code, header) == <<"head", code, header>>
SizeLine(n) == <<"size", n>>
CRLF == <<"crlf">>
Body(n) == [i \in 1 .. n |-> <<"byte">>]

NoWriter ==
    [header |-> {}, status |-> 0, wroteHeader |-> FALSE, chunked |-> FALSE,
     hijacked |-> FALSE, out |-> <<>>, flushed |-> 0, closed |-> FALSE,
     writes |-> 0, pc |-> "idle"]

\* w := &responseWriter{...} of handleHTTPConnection, s.ServeHTTP(w, req) is
\* running.
NewWriter == [NoWriter EXCEPT !.pc = "handler"]

\* responseWriter.WriteHeader(statusCode) on the writer r.
WriteHeader(r, statusCode) ==
    IF r.wroteHeader THEN r
    ELSE LET chunked == r.header \cap HeaderNames = {}
             header == IF chunked THEN r.header \cup {"Transfer-Encoding"} ELSE r.header
             out == Append(r.out, HeaderBlock(statusCode, header)) \o <<CRLF>> IN
         [r EXCEPT !.wroteHeader = TRUE, !.status = statusCode, !.chunked = chunked,
                   !.header = header, !.out = out, !.flushed = Len(out)]

\* responseWriter.Write(b) with len(b) = n, on the writer r.
Write(r, n) ==
    LET h == IF ~r.wroteHeader THEN WriteHeader(r, 200) ELSE r IN
    IF h.chunked
    THEN [h EXCEPT !.out = Append(@, SizeLine(n)) \o <<CRLF>> \o Body(n) \o <<CRLF>>]
    ELSE [h EXCEPT !.out = @ \o Body(n)]

\* responseWriter.Close() on the writer r: "0\r\n\r\n" and a flush.
Close(r) ==
    IF r.hijacked THEN r
    ELSE IF r.chunked /\ r.wroteHeader
    THEN LET out == Append(r.out, SizeLine(0)) \o <<CRLF, CRLF>> IN
         [r EXCEPT !.out = out, !.flushed = Len(out)]
    ELSE r

\* responseWriter.Flush() on the writer r.
Flush(r) == [r EXCEPT !.flushed = Len(r.out)]

\* w.Header().Set(name, ...) by the handler.
responseWriter_Header(name) ==
    /\ w.pc = "handler"
    /\ w' = [w EXCEPT !.header = @ \cup {name}]
    /\ UNCHANGED <<conn, pki, schedVars, mgrVars, fnVars, lockVars>>

responseWriter_WriteHeader(statusCode) ==
    /\ w.pc = "handler"
    /\ w' = WriteHeader(w, statusCode)
    /\ UNCHANGED <<conn, pki, schedVars, mgrVars, fnVars, lockVars>>

responseWriter_Write(n) ==
    /\ w.pc = "handler"
    /\ w.writes < MaxWrites
    /\ w' = [Write(w, n) EXCEPT !.writes = @ + 1]
    /\ UNCHANGED <<conn, pki, schedVars, mgrVars, fnVars, lockVars>>

responseWriter_Flush ==
    /\ w.pc = "handler"
    /\ w' = Flush(w)
    /\ UNCHANGED <<conn, pki, schedVars, mgrVars, fnVars, lockVars>>

\* responseWriter.Hijack(): an error the second time.
responseWriter_Hijack ==
    /\ w.pc = "handler"
    /\ w' = [w EXCEPT !.hijacked = TRUE]
    /\ UNCHANGED <<conn, pki, schedVars, mgrVars, fnVars, lockVars>>

\* s.ServeHTTP(w, req) returns to handleHTTPConnection: nothing more for a
\* hijacked writer, else w.Close() and w.Flush().
handleHTTPConnection_Close ==
    /\ w.pc = "handler"
    /\ w' = IF w.hijacked THEN [w EXCEPT !.pc = "returned"]
            ELSE [Flush(Close(w)) EXCEPT !.closed = TRUE, !.pc = "returned"]
    /\ UNCHANGED <<conn, pki, schedVars, mgrVars, fnVars, lockVars>>

NextW ==
    \/ \E name \in HeaderNames : responseWriter_Header(name)
    \/ \E statusCode \in StatusCodes : responseWriter_WriteHeader(statusCode)
    \/ \E n \in WriteSizes : responseWriter_Write(n)
    \/ responseWriter_Flush
    \/ responseWriter_Hijack
    \/ handleHTTPConnection_Close

\* ------------------------------------------------ proxy: certificates
\* A leaf certificate is its position in the sequence of the certificates
\* minted: generateCertificate draws a new RSA key each time, so no two
\* certificates it returns are the same. NoCert is no certificate.
NoCert == 0
IdleLookup == [pc |-> "idle", via |-> "", host |-> <<>>, cert |-> NoCert]

NoPki ==
    [certCache |-> [h \in HostNames |-> NoCert], minted |-> <<>>, now |-> 0,
     lookup |-> [c \in Callers |-> IdleLookup], calls |-> 0, returned |-> {}]

\* A goroutine asks for the certificate of a host: p.getCertificate(host) of
\* the CONNECT handler, or GenerateCertificate(clientHello.ServerName) of the
\* tls.Config that handleConnection builds for a TLS connection.
Lookup_Begin(c) ==
    /\ pki.lookup[c].pc \in {"idle", "done"}
    /\ pki.calls < MaxCalls
    /\ \E h \in HostNames, via \in {"getCertificate", "GetCertificate"} :
          pki' = [pki EXCEPT
                     !.lookup[c] = [pc |-> IF via = "getCertificate" THEN "load"
                                           ELSE "generate",
                                    via |-> via, host |-> h, cert |-> NoCert],
                     !.calls = @ + 1]
    /\ UNCHANGED <<conn, w, schedVars, mgrVars, fnVars, lockVars>>

\* if cert, ok := p.certCache.Load(host); ok { return cert }
getCertificate_Load(c) ==
    /\ pki.lookup[c].pc = "load"
    /\ LET cert == pki.certCache[pki.lookup[c].host] IN
       IF cert # NoCert
       THEN pki' = [pki EXCEPT !.lookup[c].pc = "done", !.lookup[c].cert = cert,
                               !.returned = @ \cup {<<pki.lookup[c].host, cert>>}]
       ELSE pki' = [pki EXCEPT !.lookup[c].pc = "generate"]
    /\ UNCHANGED <<conn, w, schedVars, mgrVars, fnVars, lockVars>>

\* generateCertificate(host): SerialNumber: big.NewInt(time.Now().Unix()).
\* The call of GetCertificate returns what it has minted.
generateCertificate(c) ==
    /\ pki.lookup[c].pc = "generate"
    /\ LET minted == Append(pki.minted, [host |-> pki.lookup[c].host,
                                         SerialNumber |-> pki.now])
           cert == Len(minted) IN
       IF pki.lookup[c].via = "getCertificate"
       THEN pki' = [pki EXCEPT !.minted = minted, !.lookup[c].pc = "store",
                               !.lookup[c].cert = cert]
       ELSE pki' = [pki EXCEPT !.minted = minted, !.lookup[c].pc = "done",
                               !.lookup[c].cert = cert,
                               !.returned = @ \cup {<<pki.lookup[c].host, cert>>}]
    /\ UNCHANGED <<conn, w, schedVars, mgrVars, fnVars, lockVars>>

\* p.certCache.Store(host, cert); return cert, nil
getCertificate_Store(c) ==
    /\ pki.lookup[c].pc = "store"
    /\ pki' = [pki EXCEPT
                  !.certCache[pki.lookup[c].host] = pki.lookup[c].cert,
                  !.lookup[c].pc = "done",
                  !.returned = @ \cup {<<pki.lookup[c].host, pki.lookup[c].cert>>}]
    /\ UNCHANGED <<conn, w, schedVars, mgrVars, fnVars, lockVars>>

\* A second passes on the clock that time.Now().Unix() reads.
Second ==
    /\ pki.now < MaxTicks
    /\ pki' = [pki EXCEPT !.now = @ + 1]
    /\ UNCHANGED <<conn, w, schedVars, mgrVars, fnVars, lockVars>>

NextC ==
    \/ \E c \in Callers :
          \/ Lookup_Begin(c)
          \/ getCertificate_Load(c)
          \/ generateCertificate(c)
          \/ getCertificate_Store(c)
    \/ Second

\* No connection is open, no response is being written, no certificate has
\* been asked for.
ServerIdle == conn = NoConn /\ w = NoWriter /\ pki = NoPki

\* -------------------------------------------------- the specifications
ClientRun(c) ==
    \/ GetOrCreateFile_First(c)
    \/ GetOrCreateFile_Save(c)
    \/ GetOrCreateFile_Create(c)
    \/ ServeFile(c)
    \/ writeDownloadError(c)
    \/ StartDownload_Lock(c)
    \/ StartDownload_Existing(c)
    \/ PauseLowPriorityTasks_Collect(c)
    \/ PauseLowPriorityTasks_Apply(c)
    \/ StreamFile_Lookup(c)
    \/ StreamFile_Status(c)
    \/ StreamFile_GetTask(c)
    \/ StreamFile_Stat(c)
    \/ StreamFile_WaitPoll(c)
    \/ StreamFile_WaitTimeout(c)
    \/ StreamFile_Header(c)
    \/ StreamFile_Copy(c)
    \/ StreamFile_Chunk(c)
    \/ StreamFile_Closed(c)
    \/ StreamFile_Disconnect(c)

ClientStep(c) == Begin(c) \/ ClientRun(c)

\* The steps of a worker but for its request.
WorkerRun(t) ==
    \/ downloadTask_Start(t)
    \/ downloadTask_MarkDownloading(t)
    \/ downloadTask_Open(t)
    \/ downloadTask_Select(t)
    \/ downloadTask_Write(t)
    \/ downloadTask_Publish(t)
    \/ downloadTask_Progress(t)
    \/ downloadTask_Complete(t)
    \/ downloadTask_StatusComplete(t)
    \/ downloadTask_Close(t)
    \/ handleDownloadError_Status(t)
    \/ handleDownloadError_Close(t)
    \/ handleDownloadError_MarkFailed(t)
    \/ handleDownloadError_Log(t)

WorkerStep(t) == downloadTask_Request(t) \/ WorkerRun(t)

Init == SchedulerInit /\ ManagerIdle /\ FnIdle /\ ServerIdle /\ LockIdle

Next ==
    \/ \E c \in Clients : ClientStep(c)
    \/ \E t \in TaskIds : WorkerStep(t)

\* One process, from an empty store and cache directory.
Spec == Init /\ [][Next]_vars

\* One process in which the first client sends proxy requests and the others
\* call StartDownload, and every started goroutine keeps being scheduled: a
\* download worker that can take a step takes one.
BeginMixed(c) == BeginAs(c, IF c = 1 THEN {"proxy"} ELSE {"direct"})

NextMixed ==
    \/ \E c \in Clients : BeginMixed(c) \/ ClientRun(c)
    \/ \E t \in TaskIds : WorkerStep(t)

FairSpec == Init /\ [][NextMixed]_vars /\ \A t \in TaskIds : WF_vars(WorkerStep(t))

\* The same with the process restarted at most MaxRestarts times.
NextR == Next \/ Restart
SpecR == Init /\ [][NextR]_vars

\* A caller of StartDownload with LowPriority calls it again for the same
\* URL, with StreamPriority.
Again(c) ==
    /\ client[c].pc = "done"
    /\ client[c].kind = "direct"
    /\ client' = [client EXCEPT ![c] = [IdleClient EXCEPT
          !.pc = "goc_first", !.kind = "direct100", !.hash = client[c].hash]]
    /\ UNCHANGED <<tasks, nTasks, task, worker, files, logs, disk, upstream, restarts, mgrVars, fnVars, srvVars, lockVars>>

\* One process in which the first client sends proxy requests and the others
\* call StartDownload, first with LowPriority and then with StreamPriority.
NextP ==
    \/ \E c \in Clients : BeginMixed(c) \/ Again(c) \/ ClientRun(c)
    \/ \E t \in TaskIds : WorkerStep(t)

SpecP == Init /\ [][NextP]_vars

\* One process, one proxy request for a URL that is not in the cache and that
\* the client stays connected to, and an upstream that delivers the body in
\* small reads.  The steps of the request are those of a first request.
BeginFirst(c) == c = 1 /\ BeginAs(c, {"proxy"})

FirstRequestRun(c) ==
    \/ GetOrCreateFile_First(c)
    \/ GetOrCreateFile_Create(c)
    \/ writeDownloadError(c)
    \/ StartDownload_Lock(c)
    \/ PauseLowPriorityTasks_Collect(c)
    \/ PauseLowPriorityTasks_Apply(c)
    \/ StreamFile_Lookup(c)
    \/ StreamFile_GetTask(c)
    \/ StreamFile_Stat(c)
    \/ StreamFile_WaitPoll(c)
    \/ StreamFile_WaitTimeout(c)
    \/ StreamFile_Header(c)
    \/ StreamFile_Copy(c)
    \/ StreamFile_Chunk(c)
    \/ StreamFile_Closed(c)

NextD ==
    \/ \E c \in Clients : BeginFirst(c) \/ FirstRequestRun(c)
    \/ \E t \in TaskIds : downloadTask_Trickle(t) \/ WorkerRun(t)

SpecD == Init /\ [][NextD]_vars

\* The hourly maintenance of startCleanup meets the scheduler:
\* CleanupExpiredFiles or LRUEvict removes the complete record of a fileHash
\* that it has selected (by age, or as least recently used) together with its
\* cache file.  The task table is not theirs to touch.
startCleanup ==
    /\ maint.n < MaxMaintenance
    /\ \E h \in Hashes :
          /\ files[h].exists /\ files[h].DownloadStatus = "complete"
          /\ files' = [files EXCEPT ![h] = NoFile]
          /\ disk' = [disk EXCEPT ![h] = <<>>]
          /\ maint' = [n |-> maint.n + 1, name |-> "startCleanup", arg |-> h]
    /\ UNCHANGED <<tasks, nTasks, task, worker, logs, client, upstream, restarts,
                   rows, nextID, cacheFiles, clock, call, fnVars, srvVars, lockVars>>

\* A later proxy request for the URL whose record was removed.
BeginAfter(c) ==
    /\ c # 1
    /\ maint.n > 0
    /\ client[c].pc = "idle"
    /\ client' = [client EXCEPT ![c] = [IdleClient EXCEPT
          !.pc = "goc_first", !.kind = "proxy", !.hash = maint.arg]]
    /\ UNCHANGED <<tasks, nTasks, task, worker, files, logs, disk, upstream, restarts, mgrVars, fnVars, srvVars, lockVars>>

\* One process: a first proxy request, the maintenance, then requests for the
\* URL it removed.
NextE ==
    \/ \E c \in Clients :
          BeginFirst(c) \/ BeginAfter(c) \/ FirstRequestRun(c) \/ StreamFile_Status(c)
    \/ \E t \in TaskIds : WorkerStep(t)
    \/ startCleanup

SpecE == Init /\ [][NextE]_vars

\* The callers of the scheduler and the download goroutine, lock by lock.
SpecL == Init /\ [][NextL]_vars

\* The cache manager alone: callers of GetOrCreateFile and db.Create, the
\* maintenance calls and the clock, over a store left by earlier processes.
InitM == SchedulerInit /\ ManagerInit /\ FnIdle /\ ServerIdle /\ LockIdle
SpecM == InitM /\ [][NextM]_vars

\* Calls of the functions of package cache on arguments fixed at the start.
InitF == SchedulerInit /\ ManagerIdle /\ FnInit /\ ServerIdle /\ LockIdle
SpecF == InitF /\ [][NextF]_vars

\* One intercepted SOCKS5 tunnel and the requests read from it.
InitS == SchedulerInit /\ ManagerIdle /\ TunnelInit /\ ServerIdle /\ LockIdle
SpecS == InitS /\ [][NextS]_vars

\* One accepted connection of the unified server, from detectProtocol to the
\* handler's reads and the routing of its request.
InitN == SchedulerInit /\ ManagerIdle /\ FnIdle /\ ConnInit /\ w = NoWriter /\ pki = NoPki /\ LockIdle
SpecN == InitN /\ [][NextN]_vars

\* One response written through a responseWriter by a handler and by
\* handleHTTPConnection.
InitW == SchedulerInit /\ ManagerIdle /\ FnIdle /\ conn = NoConn /\ w = NewWriter /\ pki = NoPki /\ LockIdle
SpecW == InitW /\ [][NextW]_vars

\* The certificate lookups of one process.
SpecC == Init /\ [][NextC]_vars

\* ================================================================ claims
TasksOf(h) == {t \in TaskIds : task[t].FileHash = h}

\* C1 (one writer): for every fileHash at most one task object was ever built,
\* at most one download worker was started for it, and at most one task of the
\* fileHash is downloading.
C1_OneWriter ==
    \A h \in Hashes :
        /\ Cardinality(TasksOf(h)) <= 1
        /\ Cardinality({t \in TasksOf(h) : worker[t].spawned = 1}) <= 1
        /\ Cardinality({t \in TasksOf(h) : task[t].Status = "downloading"}) <= 1

\* Two requests for one fileHash: one is being streamed to, the other is in
\* StartDownload and has found the task, which is downloading.
C1_Witness ==
    \E c1, c2 \in Clients :
        /\ c1 # c2 /\ client[c1].hash = client[c2].hash
        /\ client[c1].pc = "sf_stream" /\ client[c2].pc = "sd_status"
        /\ task[client[c2].task].Status = "downloading"

\* C3 (single upstream fetch): in one process the upstream receives at most
\* one GET per fileHash.
C3_SingleFetch == \A h \in Hashes : Len(upstream[h]) <= 1

\* A second request, for a file already downloaded, was served the whole body
\* from the cache, and the upstream has seen the one GET of the first request.
C3_Witness ==
    \E c1, c2 \in Clients :
        /\ c1 # c2 /\ client[c1].hash = client[c2].hash
        /\ client[c1].result = "served" /\ client[c1].out = FullBody
        /\ client[c2].pc = "done"
        /\ Len(upstream[client[c1].hash]) = 1

\* C5 (completion closure): the fan-out channel of a task is closed at most
\* once; it is closed only when the status is complete or failed; a status of
\* complete or failed is followed by the close as the worker's next step, so a
\* worker that has returned has closed it.
C5_CompletionClosure ==
    \A t \in TaskIds :
        /\ task[t].closed <= 1
        /\ task[t].closed > 0 => task[t].Status \in {"complete", "failed"}
        /\ task[t].Status \in {"complete", "failed"} =>
              (task[t].closed = 1 \/ worker[t].pc \in {"eof_close", "err_close"})
        /\ worker[t].pc = "done" => task[t].closed = 1

\* A failed task whose worker has returned, with the channel closed.
C5_Witness ==
    \E t \in TaskIds :
        task[t].Status = "failed" /\ worker[t].pc = "done" /\ task[t].closed = 1

\* C2 (fan-out): two clients that were streamed the same task from its first
\* byte on (neither found bytes on disk) and saw the channel closed on a
\* complete task have both received the whole body.
C2_BothReceiveAll ==
    \A c1, c2 \in Clients :
        ( /\ c1 # c2
          /\ client[c1].result = "stream_end" /\ client[c2].result = "stream_end"
          /\ client[c1].task = client[c2].task
          /\ client[c1].currentSize = 0 /\ client[c2].currentSize = 0
          /\ task[client[c1].task].Status = "complete" )
        => (client[c1].out = FullBody /\ client[c2].out = FullBody)

\* C6 (priority preemption): the cache file of a task whose status is paused
\* does not grow.
C6_PausedNeverGrows ==
    [][\A t \in TaskIds :
          task[t].Status = "paused" => disk'[HashOf(t)] = disk[HashOf(t)]]_vars

\* C7 (resume): a StartDownload caller that is delivering the resume signal to
\* a paused task is not left waiting: the worker that has to receive the signal
\* has not returned.
C7_ResumeReturns ==
    \A c \in Clients :
        client[c].pc = "sd_resume" => worker[client[c].task].pc # "done"

\* C8 (resume after failure): once a request that read the record as failed,
\* with bytes in the cache file, has been handled, a second GET with a Range
\* header has gone to the upstream.
C8_FailedRestarts ==
    \A c \in Clients :
        ( /\ client[c].pc = "done"
          /\ client[c].file.DownloadStatus = "failed"
          /\ disk[client[c].hash] # <<>> )
        => \E i \in 2..Len(upstream[client[c].hash]) :
              upstream[client[c].hash][i].Range > 0

\* C10 (monotone downloadedBytes): no step lowers the downloadedBytes of a
\* record.
C10_Monotone ==
    [][\A h \in Hashes :
          (files[h].exists /\ files'[h].exists)
              => files'[h].DownloadedBytes >= files[h].DownloadedBytes]_vars

LastGet(h) == upstream[h][Len(upstream[h])]

C4_DisconnectHarmless ==
    /\ [][\A c \in Clients :
            (client[c].pc = "sf_stream" /\ client'[c].result = "disconnected")
                => task' = task]_vars
    /\ \A c \in Clients, t \in TaskIds :
          (client[c].result = "disconnected" /\ client[c].task = t /\ worker[t].plan = "whole")
              ~> (task[t].Status = "complete")

\* A client has left while its task's worker is still reading a body that the
\* upstream will deliver whole.
C4_Witness ==
    \E c \in Clients, t \in TaskIds :
        /\ client[c].result = "disconnected" /\ client[c].task = t
        /\ worker[t].plan = "whole" /\ worker[t].pc = "loop"
        /\ task[t].Status = "downloading" /\ ~task[t].cancelled

\* C11 (completion consistency): the step that sets a record to complete
\* leaves its downloadedBytes equal to the size of the cache file and, when the
\* upstream announced a Content-Length (the task's file size, startOffset +
\* Content-Length, is known), equal to the record's fileSize, which is that sum.
C11_CompletionConsistent ==
    [][\A t \in TaskIds :
          (worker[t].pc = "eof_db" /\ worker'[t].pc = "eof_status"
             /\ files'[HashOf(t)].DownloadStatus = "complete")
          => LET f == files'[HashOf(t)] IN
                /\ f.DownloadedBytes = SegBytes(disk'[HashOf(t)])
                /\ task[t].FileSize > 0 =>
                      (f.FileSize = task[t].FileSize /\ f.FileSize = f.DownloadedBytes)]_vars

\* C12 (upstream error propagation): a client that waited in StreamFile with
\* nothing on disk and was answered by writeDownloadError, for a download that
\* failed on the upstream's status N, was answered with status N.
C12_StatusPropagated ==
    \A c \in Clients, N \in UpstreamErrorCodes :
        ( /\ client[c].result = "download_failed"
          /\ client[c].task # NoTask
          /\ client[c].currentSize = 0
          /\ logs[client[c].hash] = <<LogMessage(StatusErr(N))>> )
        => client[c].code = N

\* C13 (failure is carried forward): a record that is failed stays failed and
\* no GET is sent for it; a proxy request that read the record as failed was
\* answered by writeDownloadError with the status of an error log entry or 502.
C13_FailureCarried ==
    /\ [][\A h \in Hashes :
            files[h].DownloadStatus = "failed" =>
                /\ files'[h].DownloadStatus = "failed"
                /\ Len(upstream'[h]) <= Len(upstream[h])]_vars
    /\ [](\A c \in Clients :
            ( /\ client[c].pc = "done" /\ client[c].kind = "proxy"
              /\ client[c].file.DownloadStatus = "failed" )
            => /\ client[c].result = "download_failed"
               /\ client[c].code \in UpstreamErrorCodes \cup {StatusBadGateway})

\* C14 (StartDownload is idempotent): a call that finds the task of its
\* fileHash leaves the task table, the number of task objects and the workers
\* as they are; when it reads the status pending, downloading or complete it
\* returns nil and changes nothing of the task but its priority, which becomes
\* the caller's.
C14_Idempotent ==
    [][\A c \in Clients :
          /\ (client[c].pc = "sd_lock" /\ tasks[client[c].hash] # NoTask
                /\ task[tasks[client[c].hash]].Status \in {"pending", "downloading", "complete"}
                /\ client'[c] # client[c])
             => /\ <<tasks, nTasks, task, worker>>' = <<tasks, nTasks, task, worker>>
                /\ client'[c].task = tasks[client[c].hash]
          /\ (client[c].pc = "sd_status" /\ client'[c] # client[c]
                /\ task[client[c].task].Status \in {"pending", "downloading", "complete"})
             => /\ <<tasks, nTasks, worker>>' = <<tasks, nTasks, worker>>
                /\ task' = [task EXCEPT ![client[c].task].Priority = PriorityOf(c)]
                /\ tasks[client[c].hash] = client[c].task
                /\ client'[c].pc \in {"done", "sf_gettask"}]_vars

\* A second StartDownload, with another priority, has found the task
\* downloading and has returned; the task has the second caller's priority.
C14_Witness ==
    \E c \in Clients :
        /\ client[c].result = "existing"
        /\ task[client[c].task].Status = "downloading"
        /\ task[client[c].task].Priority = LowPriority
        /\ \E d \in Clients : d # c /\ client[d].kind = "proxy" /\ client[d].task = client[c].task

\* C15 (hash uniqueness): the store never holds two rows with one fileHash; a
\* db.Create with a fileHash that a row already has fails and leaves the table
\* as it is; GetOrCreateFile that finds a row for its fingerprint goes on with
\* that row and returns it, same ID and same fileHash, without an error and
\* without another row entering the table.
C15_HashUnique ==
    /\ [](\A r, q \in rows : r.FileHash = q.FileHash => r = q)
    /\ [][\A k \in Callers :
            /\ (call[k].pc \in {"insert", "create"} /\ call'[k].pc = "done"
                  /\ \E r \in rows : r.FileHash = call[k].hash)
               => (call'[k].err /\ rows' = rows)
            /\ (call[k].pc = "first" /\ call'[k].pc # "first"
                  /\ \E r \in rows : r.FileHash = call[k].hash)
               => (call'[k].pc = "save" /\ call'[k].row \in rows
                     /\ call'[k].row.FileHash = call[k].hash)
            /\ (call[k].pc = "save" /\ call'[k].pc = "done")
               => /\ ~call'[k].err
                  /\ call'[k].ret.ID = call[k].row.ID
                  /\ call'[k].ret.FileHash = call[k].hash
                  /\ nextID' = nextID
                  /\ \A r \in rows' : r.ID \in {q.ID : q \in rows} \cup {call[k].row.ID}]_vars

\* Both callers are done with one fingerprint that had a row: the insert was
\* rejected, GetOrCreateFile has returned the row, and the row is the only one
\* of its fileHash.
C15_Witness ==
    \E k, j \in Callers :
        /\ call[k].pc = "done" /\ call[k].op = "Create" /\ call[k].err
        /\ call[j].pc = "done" /\ call[j].op = "GetOrCreateFile"
        /\ call[j].hash = call[k].hash
        /\ call[j].ret.ID = call[j].hash
        /\ call[j].ret \in rows

\* C16 (concurrent first-seen): no call of GetOrCreateFile returns an error,
\* in particular not the one whose insert the uniqueness constraint rejects.
C16_BothSucceed ==
    \A c \in Clients : client[c].result # "create_error"

\* Total size of the files of the complete rows of a store.
RECURSIVE CompleteBytesOnDisk(_, _)
CompleteBytesOnDisk(rs, cf) ==
    IF rs = {} THEN 0
    ELSE LET r == CHOOSE q \in rs : TRUE IN
         (IF r.DownloadStatus = "complete" /\ cf[r.FileHash] # NoSuchFile
          THEN cf[r.FileHash] ELSE 0) + CompleteBytesOnDisk(rs \ {r}, cf)

\* C19 (cleanupExpired): the step of CleanupExpiredFiles at time now removes
\* the rows that are complete and were last accessed before now - ttl, and
\* their cache files, and nothing else: every other row stays as it is, and so
\* does its file.
C19_CleanupExact ==
    [][(maint'.n = maint.n + 1 /\ maint'.name = "CleanupExpiredFiles")
       => LET old(r) == r.DownloadStatus = "complete" /\ r.LastAccessedAt < clock - TTL IN
          /\ \A r \in rows' : ~old(r)
          /\ rows' \subseteq rows
          /\ \A r \in rows :
                IF old(r)
                THEN r \notin rows' /\ cacheFiles'[r.FileHash] = NoSuchFile
                ELSE r \in rows' /\ cacheFiles'[r.FileHash] = cacheFiles[r.FileHash]]_vars

\* CleanupExpiredFiles has returned; a row that a caller of GetOrCreateFile
\* had read is gone with its file, and a complete row with a file is kept.
C19_Witness ==
    /\ maint.name = "CleanupExpiredFiles"
    /\ \E k \in Callers :
          /\ call[k].pc = "save" /\ call[k].row \notin rows
          /\ cacheFiles[call[k].row.FileHash] = NoSuchFile
    /\ \E r \in rows : r.DownloadStatus = "complete" /\ HasFile(cacheFiles, r)

\* C20 (LRU eviction): the step of LRUEvict(B) leaves complete rows with at
\* most B bytes on disk; it removes only complete rows that have a file; it
\* keeps no complete row with a file that is older than a removed one; and the
\* last row it removed was needed: without that removal the total is above B.
C20_LRUEvict ==
    [][(maint'.n = maint.n + 1 /\ maint'.name = "LRUEvict")
       => LET B == maint'.arg
              removed == rows \ rows' IN
          /\ CompleteBytesOnDisk(rows', cacheFiles') <= B
          /\ rows' \subseteq rows
          /\ \A r \in removed :
                /\ r.DownloadStatus = "complete" /\ HasFile(cacheFiles, r)
                /\ cacheFiles'[r.FileHash] = NoSuchFile
                /\ \A q \in rows' :
                      (q.DownloadStatus = "complete" /\ HasFile(cacheFiles, q))
                          => q.LastAccessedAt >= r.LastAccessedAt
          /\ \A r \in rows' : cacheFiles'[r.FileHash] = cacheFiles[r.FileHash]
          /\ removed # {} =>
                \E r \in removed :
                    /\ \A d \in removed : d.LastAccessedAt <= r.LastAccessedAt
                    /\ CompleteBytesOnDisk(rows' \cup {r}, cacheFiles) > B]_vars

\* LRUEvict with a target above zero has returned; a row that a caller of
\* GetOrCreateFile had read is gone with its file, and a complete row with a
\* file is kept.
C20_Witness ==
    /\ maint.name = "LRUEvict" /\ maint.arg > 0
    /\ \E k \in Callers :
          /\ call[k].pc = "save" /\ call[k].row \notin rows
          /\ cacheFiles[call[k].row.FileHash] = NoSuchFile
    /\ \E r \in rows : r.DownloadStatus = "complete" /\ HasFile(cacheFiles, r)

\* The two URLs differ in nothing but the directories before the last path
\* segment.
SameButPrefix(u, v) == u.host = v.host /\ u.name = v.name /\ u.query = v.query

\* C17 (fingerprint stability and strategies): calls of ComputeFileHash with
\* one cookie and one strategy, in any order, give equal hashes for equal URLs;
\* under filename_only also for URLs that differ only in the path prefix; under
\* full_url different URLs give different hashes.
C17_Fingerprint ==
    \A i, j \in 1..Len(ret) :
        arg.fn = "ComputeFileHash" =>
            /\ ret[i].url = ret[j].url => ret[i].out = ret[j].out
            /\ (arg.strategy = "filename_only" /\ SameButPrefix(ret[i].url, ret[j].url))
                  => ret[i].out = ret[j].out
            /\ (arg.strategy = "full_url" /\ URLString(ret[i].url) # URLString(ret[j].url))
                  => ret[i].out # ret[j].out

\* Three calls under filename_only with a cookie: a URL, a URL with another
\* path prefix and a query, and the first URL again.
C17_Witness ==
    /\ arg.fn = "ComputeFileHash" /\ arg.strategy = "filename_only" /\ arg.cookie # <<>>
    /\ Len(ret) = 3
    /\ ret[1].url # ret[2].url /\ SameButPrefix(ret[1].url, ret[2].url)
    /\ ret[1].url.query # <<>>
    /\ ret[3].url = ret[1].url
    /\ ret[1].out = ret[2].out /\ ret[3].out = ret[1].out

\* C18 (rule matching): MatchCDNRule gives true exactly when the host of the
\* URL contains the domain and the pattern is empty or matches the URL.
C18_MatchesHost ==
    \A i \in 1..Len(ret) :
        arg.fn = "MatchCDNRule" =>
            (ret[i].out <=>
                /\ Contains(arg.url.host, arg.domain)
                /\ (arg.pattern = ""
                      \/ (MatchString(arg.pattern, URLString(arg.url))[1]
                            /\ ~MatchString(arg.pattern, URLString(arg.url))[2])))

\* Two segments of a content share a byte offset.
Overlap(a, b) == a[1] < b[1] + b[2] /\ b[1] < a[1] + a[2]

\* C27 (no double count): what StreamFile has written to a client holds no
\* byte offset of the file twice.
C27_NoDoubleCount ==
    \A c \in Clients :
        client[c].kind = "proxy" =>
            \A i, j \in 1..Len(client[c].out) :
                i # j => ~Overlap(client[c].out[i], client[c].out[j])

\* C29 (task state machine): the status of a task changes only along
\* pending -> downloading, downloading -> paused, paused -> downloading,
\* downloading -> complete and downloading -> failed.
C29_StateMachine ==
    [][\A t \in TaskIds :
          (task[t].Status # "none" /\ task'[t].Status # task[t].Status)
          => <<task[t].Status, task'[t].Status>> \in
                { <<"pending", "downloading">>, <<"downloading", "paused">>,
                  <<"paused", "downloading">>, <<"downloading", "complete">>,
                  <<"downloading", "failed">> }]_vars

\* Every byte of the body is in some segment of a content.
Covers(s) ==
    \A b \in 0..(BodyBytes - 1) : \E i \in 1..Len(s) : s[i][1] <= b /\ b < s[i][1] + s[i][2]

\* C28 (no gaps after drops): a client for whom StreamFile has returned at the
\* end of the stream of a complete task has been written every byte of the
\* body.
C28_NoGaps ==
    \A c \in Clients :
        (client[c].result = "stream_end" /\ task[client[c].task].Status = "complete")
            => Covers(client[c].out)

\* C30 (pause only below the minimum): the pausing pass of
\* PauseLowPriorityTasks(StreamPriority) changes a task only when the task is
\* downloading with a priority below StreamPriority at that moment, and then
\* only its status, to paused.
C30_PauseBelowOnly ==
    [][\A c \in Clients, t \in TaskIds :
          (client[c].pc = "pause_apply" /\ client'[c].pc # "pause_apply"
             /\ task'[t] # task[t])
          => /\ task[t].Status = "downloading"
             /\ task[t].Priority < StreamPriority
             /\ task'[t] = [task[t] EXCEPT !.Status = "paused"]]_vars

\* C21 (the peek layer loses nothing): whatever the sizes of the buffers the
\* reader of a peeked connection passes to Read, the bytes its reads have
\* returned so far are the first bytes the client sent, in order.
C21_NothingLost ==
    conn.got = SubSeq(conn.req.bytes, 1, Len(conn.got))

\* C22 (protocol demultiplexing): once handleConnection has made its choice, a
\* connection whose first byte is 0x05 is with the SOCKS5 handler (where the
\* server has one), one whose first byte is 0x16 is with TLS termination and
\* the HTTP loop, one whose first four bytes are "GET ", "POST", "CONN",
\* "HEAD" or "PUT " is with the HTTP loop, and any other connection has been
\* closed without being given to a handler.
C22_Demultiplexed ==
    LET bytes == conn.req.bytes IN
    conn.pc \in {"serving", "served", "closed"} =>
        IF bytes # <<>> /\ bytes[1] = SOCKS5Version
        THEN HasSOCKS5Proxy(conn.mode) => conn.handler = "socks5"
        ELSE IF bytes # <<>> /\ bytes[1] = TLSHandshake THEN conn.handler = "tls"
        ELSE IF Len(bytes) >= 4 /\ SubSeq(bytes, 1, 4) \in HTTPMethods
        THEN conn.handler = "http"
        ELSE conn.handler = "none"

\* C23 (response framing): in what a responseWriter has written, the status
\* line and headers come once and first; the body is chunk-framed exactly when
\* the handler had set neither Content-Length nor Transfer-Encoding when the
\* headers were written; and the zero-length chunk is written once, by Close,
\* only for a chunked response that was not hijacked, and is the last thing
\* written.
C23_Framing ==
    /\ [](LET out == w.out
              heads == {i \in 1 .. Len(out) : out[i][1] = "head"}
              zeroes == {i \in 1 .. Len(out) : out[i] = SizeLine(0)} IN
          /\ out # <<>> => heads = {1}
          /\ zeroes # {} => /\ w.closed /\ w.chunked /\ ~w.hijacked
                            /\ zeroes = {Len(out) - 2}
          /\ w.closed /\ w.chunked /\ ~w.hijacked => zeroes # {})
    /\ [][~w.wroteHeader /\ w'.wroteHeader
             => (w'.chunked <=> w.header \cap HeaderNames = {})]_vars

\* C24 (certificate memoization): any two certificate lookups for one host
\* that have returned, through getCertificate or through the GetCertificate
\* of a TLS connection, returned the same leaf certificate.
C24_Memoized ==
    \A a, b \in pki.returned : a[1] = b[1] => a[2] = b[2]

\* C25 (serial uniqueness): no two leaf certificates minted by the process
\* carry the same serial number.
C25_SerialsDistinct ==
    \A i, j \in 1 .. Len(pki.minted) :
        i # j => pki.minted[i].SerialNumber # pki.minted[j].SerialNumber

\* C26 (proxy_mode selects the protocols): a connection is with the SOCKS5
\* handler only in mode socks5 or all, a request is passed to the HTTP proxy
\* only in mode http or all, and to the URL-path reverse proxy only in mode
\* url_path or all.
C26_ModeSelects ==
    /\ conn.handler = "socks5" => conn.mode \in {"socks5", "all"}
    /\ conn.route = "mitmProxy" => conn.mode \in {"http", "all"}
    /\ conn.route = "reverseProxy" => conn.mode \in {"url_path", "all"}

\* C40 (filename_only hash input): under strategy filename_only, two calls of
\* ComputeFileHash with one cookie on URLs of the same host, path and name that
\* differ only in their query string give the same fileHash, also when the
\* query holds a "/".
C40_QueryIgnored ==
    \A i, j \in 1..Len(ret) :
        (arg.fn = "ComputeFileHash" /\ arg.strategy = "filename_only"
            /\ [ret[i].url EXCEPT !.query = <<>>] = [ret[j].url EXCEPT !.query = <<>>])
        => ret[i].out = ret[j].out

C33_AlwaysAnswers ==
    \A c \in Clients :
        (client[c].kind = "proxy" /\ client[c].pc = "done") => client[c].code # 0

\* C34 (eviction followed by a new request): a proxy request made after the
\* maintenance has removed the complete record and the cache file of its URL,
\* once answered, has caused a new GET to the upstream, and if its response
\* announced a Content-Length it carried a body.
C34_RefetchedAfterEviction ==
    \A c \in Clients :
        (c # 1 /\ client[c].pc = "done" /\ client[c].code = StatusOK)
        => /\ Len(upstream[client[c].hash]) > 1
           /\ client[c].clen > 0 => client[c].out # <<>>

\* C35 (completion is permanent in the store): a record whose downloadStatus
\* is complete with completedAt set keeps its status, completedAt, fileSize
\* and contentType in every step that does not delete it.
C35_CompletionPermanent ==
    [][\A h \in Hashes :
          (files[h].exists /\ files[h].DownloadStatus = "complete" /\ files[h].Completed
              /\ files'[h].exists)
          => /\ files'[h].DownloadStatus = "complete"
             /\ files'[h].Completed
             /\ files'[h].FileSize = files[h].FileSize
             /\ files'[h].ContentType = files[h].ContentType]_vars

\* The bytes of a chunk are in the cache file of fileHash h.
OnDisk(h, chunk) ==
    \E i \in 1..Len(disk[h]) :
        /\ disk[h][i][1] <= chunk[1]
        /\ chunk[1] + chunk[2] <= disk[h][i][1] + disk[h][i][2]

\* C36 (disk before publish, in order): within one task, the chunk about to be
\* offered to the fan-out channel and every chunk in the channel is already in
\* the cache file, the chunks in the channel are in the order they were read
\* from the upstream, and the chunk about to be offered comes after them all.
C36_DiskBeforePublish ==
    \A t \in TaskIds :
        LET ch == task[t].dataChan IN
        /\ \A i \in 1..Len(ch) : OnDisk(HashOf(t), ch[i])
        /\ \A i, j \in 1..Len(ch) : i < j => ch[i][1] + ch[i][2] <= ch[j][1]
        /\ worker[t].pc = "publish" =>
              /\ OnDisk(HashOf(t), <<worker[t].pos, worker[t].n>>)
              /\ \A i \in 1..Len(ch) : ch[i][1] + ch[i][2] <= worker[t].pos

\* Three chunks wait in the channel of a task whose worker has written a
\* fourth to the file and is about to offer it.
C36_Witness ==
    \E t \in TaskIds :
        /\ Len(task[t].dataChan) >= 3
        /\ worker[t].pc = "publish" /\ worker[t].n > 0

\* The worker of task t is in handleDownloadError for a rejected upstream
\* status.
Rejected(t) ==
    /\ worker[t].pc \in {"err_status", "err_close", "err_db", "err_log"}
    /\ Len(worker[t].err) = 2
    /\ worker[t].err[1] = "unexpected status code: "

\* C37 (a rejected upstream status leaves the cache untouched): from the
\* rejection of a status outside {200, 206} to the return of the worker, no
\* step changes the cache file or the record's fileSize, contentType and
\* downloadedBytes; the only log entry written for the fileHash is the one of
\* the worker's last step, which holds the status code; and at that step the
\* task is failed and its fan-out channel closed.
C37_RejectedLeavesCache ==
    [][\A t \in TaskIds :
          Rejected(t) =>
             LET h == HashOf(t) IN
             /\ disk'[h] = disk[h]
             /\ files'[h].FileSize = files[h].FileSize
             /\ files'[h].ContentType = files[h].ContentType
             /\ files'[h].DownloadedBytes = files[h].DownloadedBytes
             /\ IF worker[t].pc = "err_log" /\ worker'[t].pc = "done"
                THEN /\ logs'[h] = Append(logs[h], <<"Download failed: ">> \o worker[t].err)
                     /\ task'[t].Status = "failed"
                     /\ task'[t].closed = 1
                ELSE logs'[h] = logs[h]]_vars

\* A resumed download of a file that is whole on disk was answered 416: its
\* worker has returned, the task is failed, the log holds the status code and
\* the file is as it was.
C37_Witness ==
    \E t \in TaskIds :
        /\ worker[t].pc = "done" /\ task[t].Status = "failed" /\ task[t].closed = 1
        /\ logs[HashOf(t)] # <<>>
        /\ logs[HashOf(t)][Len(logs[HashOf(t)])]
              = <<"Download failed: ", "unexpected status code: ", StatusRangeNotSatisfiable>>
        /\ disk[HashOf(t)] = FullBody

\* C38 (progress persistence interval): the worker writes downloadedBytes to
\* the record during a download only when the cumulative byte count is a
\* multiple of 1 MiB (1,048,576 bytes).
C38_EveryMiB ==
    \A t \in TaskIds :
        worker[t].pc = "progress" => worker[t].downloaded % (1024 * 1024) = 0

\* C39 (SOCKS5 request normalization): every request read from an intercepted
\* tunnel has, after normalization, the detected scheme as URL.Scheme and the
\* authority of the SOCKS5 target as URL.Host and as Host, whatever the Host
\* header of the client.
C39_Normalized ==
    arg.fn = "handleMITMConnection" =>
        \A i \in 1..Len(ret) :
            LET authority == formatTargetAuthority(arg.host, arg.port, arg.scheme) IN
            /\ ret[i].req.URL.Scheme = arg.scheme
            /\ ret[i].req.URL.Host = authority
            /\ ret[i].req.Host = authority

\* The goroutines a goroutine at a lock operation waits for.
WaitsFor(g) ==
    IF At(g, "Lock", "task.mu") THEN {mu.t} \ {NoOne}
    ELSE IF At(g, "Lock", "s.mu") /\ mu.s.w = g THEN mu.s.r
    ELSE {mu.s.w} \ {NoOne}

\* A goroutine can take its step now, or waits for a lock whose holders can
\* all in turn, along a chain of at most n waits.
RECURSIVE Proceeds(_, _)
Proceeds(g, n) ==
    \/ Cur(g)[1] \in {"Return", "Unlock", "RUnlock", "Data", "Net", "Disk", "Go"}
    \/ CanAcquire(g)
    \/ At(g, "Lock", "s.mu") /\ mu.s.w = NoOne
    \/ Cur(g)[1] \in {"TrySend", "Close", "Send", "Recv"} /\ CanPass(g)
    \/ /\ n > 0
       /\ Cur(g)[1] \in {"Lock", "RLock"}
       /\ WaitsFor(g) # {}
       /\ \A h \in WaitsFor(g) : Proceeds(h, n - 1)

\* C31 (lock discipline): no goroutine asks for the scheduler lock while it
\* holds a task lock; no goroutine that holds the scheduler lock is at a
\* blocking channel operation, a network operation or a disk operation; and a
\* goroutine that waits for either lock waits for goroutines that can go on,
\* so none of the four functions deadlocks on the locks.
C31_LockDiscipline ==
    \A g \in Goroutines :
        /\ (Cur(g)[1] \in {"Lock", "RLock"} /\ Cur(g)[2] = "s.mu") => mu.t # g
        /\ (HoldsS(g) \/ mu.s.w = g) => Cur(g)[1] \notin {"Send", "Recv", "Net", "Disk"}
        /\ Cur(g)[1] \in {"Lock", "RLock"} => Proceeds(g, Cardinality(Goroutines))

\* GetActiveTaskCount or PauseLowPriorityTasks holds the scheduler lock for
\* reading and waits for the task lock, which the download goroutine holds,
\* while StartDownload waits for the readers to leave.
C31_Witness ==
    \E g, h \in Entrants :
        /\ g \in mu.s.r /\ At(g, "Lock", "task.mu") /\ mu.t = Downloader
        /\ mu.s.w = h /\ ~mu.s.locked /\ At(h, "Lock", "s.mu")

====
